---------------------------- MODULE Spec2Model ----------------------------
(***************************************************************************)
(* Task graph & scheduler (orchestrator/tasks/manager.py) together with    *)
(* the execution engine's per-task run (orchestrator/core/orchestrator.py):*)
(* _execute_task, _reasoning_loop with its three interrupt checkpoints,    *)
(* its tool dispatch, _handle_interrupt, the completion propagation and    *)
(* the loops that call _execute_task; the interrupt controller             *)
(* (core/interrupt.py), the hook engine (hooks/engine.py) and the subagent *)
(* manager (subagents/manager.py).                                         *)
(*                                                                         *)
(* Task ids are 1, 2, 3, ... in creation order and are never reused (the   *)
(* code draws a fresh uuid4 per Task).  TaskManager.tasks is a Python dict,*)
(* which iterates in insertion order: here that is ascending id order.     *)
(* None is 0 for ids and timestamps.                                       *)
(***************************************************************************)
EXTENDS Integers, Sequences, FiniteSets, TLC

(* ------------------------------ bounds -------------------------------- *)
\* number of task ids ever handed out
MaxTasks == 3
\* task ids handed out and update_task calls while a hierarchy is built
HierarchyTasks == 4
HierarchyUpdates == 2
\* update_task calls while tasks of several priorities are scheduled
PriorityUpdates == 1
\* interrupt requests, runs of _execute_task and tasks of the reasoning loop alone
LoopInterrupts == 2
LoopRuns == 2
LoopTasks == 2
\* update_task / delete_task calls of the caller, scheduler alone
MaxApiCalls == 2
\* update_task calls of the caller while the engine runs a task graph
MaxUpdates == 1
\* interrupt requests made by the user
MaxInterrupts == 1
\* runs of _execute_task on a task graph
MaxRuns == 1
\* the same on a task tree
TreeUpdates == 2
TreeRuns == 2
\* tool_use blocks in one provider turn
MaxToolBlocks == 1
\* the same for the specification in which time passes
MaxClock == 2
TimedTasks == 2
TimedApiCalls == 1
TimedRuns == 2
\* configuration: orchestrator.max_iterations
max_iterations == 1
\* configuration: tasks.max_pending_tasks
max_pending_tasks == 3
\* configuration: tasks.max_depth
max_depth == 2
\* configuration: tasks.max_subtasks_per_task
max_subtasks_per_task == 2
\* runs of _execute_task under run() and _execute_subtasks_recursive
RunRuns == 3
\* requests made of the interrupt controller between two resets
MaxRequests == 3
\* InterruptController(soft_interrupt_limit=2), the default
soft_interrupt_limit == 2
\* hooks ever registered
MaxHooks == 3
\* subagents ever spawned
MaxSubagents == 3
\* callbacks ever registered with the interrupt controller
MaxCallbacks == 2
\* SubagentManager(max_concurrent=...)
max_concurrent == 2

Ids == 1..MaxTasks

(* --------------------------- data model ------------------------------- *)
\* TaskStatus
PENDING == "pending"
IN_PROGRESS == "in_progress"
BLOCKED == "blocked"
COMPLETED == "completed"
FAILED == "failed"
CANCELLED == "cancelled"
TaskStatus == {PENDING, IN_PROGRESS, BLOCKED, COMPLETED, FAILED, CANCELLED}

\* TaskPriority
TaskPriority == {"critical", "high", "medium", "low"}

\* values of Task.result: None, the loop's return values, the auto-complete text
NoResult == [kind |-> "none", n |-> 0]
Res(k) == [kind |-> k, n |-> 0]
AutoResult(n) == [kind |-> "auto", n |-> n]

\* values of Task.error
NoError == "none"
InterruptedByUser == "Interrupted by user"

\* Task(...) with the defaults of the model class
Task(parent, prio) ==
    [status |-> PENDING, priority |-> prio, parent_id |-> parent,
     subtasks |-> <<>>, depends_on |-> <<>>, blocks |-> <<>>,
     completed_at |-> 0, result |-> NoResult, error |-> NoError]

VARIABLES
    tasks,         \* TaskManager.tasks: id -> Task
    nextId,        \* the next fresh task id
    clock,         \* datetime.utcnow()
    ret,           \* what the last call returned or raised
    pc,            \* where the engine is in _execute_task
    cur,           \* Orchestrator.current_task while a task runs (0: none)
    iter,          \* iteration of the reasoning loop
    text,          \* reasoning_text is non-empty
    toolsLeft,     \* tool_use blocks of the current turn not yet dispatched
    loopResult,    \* what _reasoning_loop returned
    ic,            \* the InterruptController
    co,            \* the cooperative call of the controller that is under way
    seen,          \* the requests made since the last reset
    callbacks,     \* InterruptController._callbacks
    notified,      \* the callbacks invoked since the last request that was not
                   \* nested in another began
    hooks,         \* HookEngine.hooks: event -> [(priority, hook)]
    enabled,       \* HookEngine.enabled
    handles,       \* the SubagentHandle of every spawn, by subagent
    semaphore,     \* SubagentManager._semaphore: the free slots
    hitl,          \* the HITLHook, its workspace's approval whitelist and the
                   \* last approval event it handled
    modes,         \* the ModeManager and the last list of schemas it filtered
    caller,        \* the loop that calls _execute_task: run, _execute_subtasks_recursive
    budget         \* calls left: [tasks, api, intr, runs]

vars == <<tasks, nextId, clock, ret, pc, cur, iter, text, toolsLeft,
          loopResult, ic, co, seen, callbacks, notified, hooks, enabled, handles, semaphore, hitl,
          modes, caller, budget>>
engineVars == <<pc, cur, iter, text, toolsLeft, loopResult>>
callbackVars == <<callbacks, notified>>
controllerVars == <<ic, co, seen, callbackVars>>
componentVars == <<hooks, enabled, handles, semaphore, hitl, modes>>

(* ----------------------------- helpers -------------------------------- *)
Range(s) == {s[i] : i \in 1..Len(s)}
Contains(s, x) == \E i \in 1..Len(s) : s[i] = x
\* list.remove(x): drops the first occurrence
RemoveFirst(s, x) ==
    IF ~Contains(s, x) THEN s
    ELSE LET i == CHOOSE j \in 1..Len(s) :
                     s[j] = x /\ \A k \in 1..(j - 1) : s[k] # x
         IN  SubSeq(s, 1, i - 1) \o SubSeq(s, i + 1, Len(s))

\* the ids of S in increasing order
RECURSIVE Sorted(_)
Sorted(S) ==
    IF S = {} THEN <<>>
    ELSE LET m == CHOOSE x \in S : \A y \in S : x <= y IN <<m>> \o Sorted(S \ {m})

\* self.tasks.get(id)
Exists(ts, id) == id \in DOMAIN ts

\* ret: the outcome of the last call, for the calls whose outcome the
\* properties read (add_dependency, create_subtask, get_next_executable_task,
\* get_execution_order, _execute_task): the operation, the error it raised
\* ("none": it returned), the id of the task it returned or ran, and for
\* the list-valued calls the argument and the result; fired lists the events
\* _execute_task handed to _trigger_hook in that step. Any other call, and a
\* call that returned nothing, leaves Returned.
Ret(op, err, id) ==
    [op |-> op, err |-> err, id |-> id, ids |-> <<>>, out |-> <<>>, fired |-> <<>>]
Returned == Ret("call", "none", 0)
Outcome(op, err) ==
    IF err = "none" \/ op \notin {"add_dependency", "create_subtask"}
    THEN Returned ELSE Ret(op, err, 0)


(* ------------------- TaskManager: pure operations --------------------- *)
\* for key, value in updates.items(): setattr(task, key, value); the callers
\* pass status, result and error
apply_updates(t, updates) ==
    [t EXCEPT !.status = IF "status" \in DOMAIN updates THEN updates.status ELSE @,
              !.result = IF "result" \in DOMAIN updates THEN updates.result ELSE @,
              !.error = IF "error" \in DOMAIN updates THEN updates.error ELSE @]

\* update_task with the completed_at guard dropped: stamps on every update
\* that leaves the task Completed
update_task_restamp(ts, id, updates, now) ==
    LET set == apply_updates(ts[id], updates)
    IN  [ts EXCEPT ![id] = IF set.status = COMPLETED
                           THEN [set EXCEPT !.completed_at = now] ELSE set]

\* update_task(task_id, updates) for an existing task: setattr for every key
\* the Task has, then completed_at on the first Completed
update_task(ts, id, updates, now) ==
    LET set == apply_updates(ts[id], updates)
    IN  [ts EXCEPT ![id] = IF set.status = COMPLETED /\ set.completed_at = 0
                           THEN [set EXCEPT !.completed_at = now] ELSE set]

\* delete_task: del self.tasks[task_id], nothing else
delete_task(ts, id) == [k \in DOMAIN ts \ {id} |-> ts[k]]

\* create_task: the pending ceiling, then self.tasks[task.id] = task
create_task(ts, id, task) ==
    IF Cardinality({k \in DOMAIN ts : ts[k].status = PENDING}) >= max_pending_tasks
    THEN [tasks |-> ts, err |-> "MaxPendingTasks"]
    ELSE [tasks |-> [k \in DOMAIN ts \cup {id} |-> IF k = id THEN task ELSE ts[k]],
          err |-> "none"]

RECURSIVE _get_task_depth(_, _)
_get_task_depth(ts, id) ==
    IF ~Exists(ts, id) THEN 0
    ELSE IF ts[id].parent_id = 0 THEN 0
    ELSE 1 + _get_task_depth(ts, ts[id].parent_id)

\* create_subtask without the depth check
create_subtask_any_depth(ts, parent, id, prio) ==
    IF ~Exists(ts, parent) THEN [tasks |-> ts, err |-> "ParentNotFound"]
    ELSE IF Len(ts[parent].subtasks) >= max_subtasks_per_task
    THEN [tasks |-> ts, err |-> "MaxSubtasksExceeded"]
    ELSE LET c == create_task(ts, id, Task(parent, prio))
         IN  IF c.err # "none" THEN [tasks |-> ts, err |-> c.err]
             ELSE [tasks |-> [c.tasks EXCEPT ![parent].subtasks = Append(@, id)],
                   err |-> "none"]

\* create_subtask(parent_id, ..., priority)
create_subtask(ts, parent, id, prio) ==
    IF ~Exists(ts, parent) THEN [tasks |-> ts, err |-> "ParentNotFound"]
    ELSE IF _get_task_depth(ts, parent) >= max_depth
    THEN [tasks |-> ts, err |-> "MaxDepthExceeded"]
    ELSE IF Len(ts[parent].subtasks) >= max_subtasks_per_task
    THEN [tasks |-> ts, err |-> "MaxSubtasksExceeded"]
    ELSE LET c == create_task(ts, id, Task(parent, prio))
         IN  IF c.err # "none" THEN [tasks |-> ts, err |-> c.err]
             ELSE [tasks |-> [c.tasks EXCEPT ![parent].subtasks = Append(@, id)],
                   err |-> "none"]

\* _has_cycle_dfs(start, target, visited): the visited set is shared by the
\* whole search, so it is returned with the answer
RECURSIVE _has_cycle_dfs(_, _, _, _), dfs_deps(_, _, _, _, _)
_has_cycle_dfs(ts, start, target, visited) ==
    IF start = target THEN [found |-> TRUE, visited |-> visited]
    ELSE IF start \in visited THEN [found |-> FALSE, visited |-> visited]
    ELSE IF ~Exists(ts, start)
    THEN [found |-> FALSE, visited |-> visited \cup {start}]
    ELSE dfs_deps(ts, ts[start].depends_on, 1, target, visited \cup {start})
\* for dep_id in task.depends_on: if self._has_cycle_dfs(...): return True
dfs_deps(ts, deps, i, target, visited) ==
    IF i > Len(deps) THEN [found |-> FALSE, visited |-> visited]
    ELSE LET r == _has_cycle_dfs(ts, deps[i], target, visited)
         IN  IF r.found THEN r ELSE dfs_deps(ts, deps, i + 1, target, r.visited)

\* a cycle check that looks one edge deep only
_has_dependency_cycle_shallow(ts, task_id, new_dependency_id) ==
    \/ new_dependency_id = task_id
    \/ /\ Exists(ts, new_dependency_id)
       /\ Contains(ts[new_dependency_id].depends_on, task_id)

_has_dependency_cycle(ts, task_id, new_dependency_id) ==
    _has_cycle_dfs(ts, new_dependency_id, task_id, {}).found

\* add_dependency that links the edge before it validates it
add_dependency_eager(ts, task_id, depends_on_id) ==
    LET linked == IF Exists(ts, task_id) /\ Exists(ts, depends_on_id)
                  THEN [ts EXCEPT ![task_id].depends_on = Append(@, depends_on_id),
                                  ![depends_on_id].blocks = Append(@, task_id)]
                  ELSE ts
    IN  IF ~Exists(ts, task_id) THEN [tasks |-> linked, err |-> "TaskNotFound"]
        ELSE IF ~Exists(ts, depends_on_id)
        THEN [tasks |-> linked, err |-> "DependencyNotFound"]
        ELSE IF task_id = depends_on_id
        THEN [tasks |-> linked, err |-> "SelfDependency"]
        ELSE IF _has_dependency_cycle(ts, task_id, depends_on_id)
        THEN [tasks |-> linked, err |-> "CycleDetected"]
        ELSE [tasks |-> linked, err |-> "none"]

\* add_dependency(task_id, depends_on_id); auto_block_on_dependency is on
add_dependency(ts, task_id, depends_on_id) ==
    IF ~Exists(ts, task_id) THEN [tasks |-> ts, err |-> "TaskNotFound"]
    ELSE IF ~Exists(ts, depends_on_id) THEN [tasks |-> ts, err |-> "DependencyNotFound"]
    ELSE IF task_id = depends_on_id THEN [tasks |-> ts, err |-> "SelfDependency"]
    ELSE IF _has_dependency_cycle(ts, task_id, depends_on_id)
    THEN [tasks |-> ts, err |-> "CycleDetected"]
    ELSE LET t1 == IF Contains(ts[task_id].depends_on, depends_on_id) THEN ts
                   ELSE [ts EXCEPT ![task_id].depends_on = Append(@, depends_on_id)]
             t2 == IF Contains(t1[depends_on_id].blocks, task_id) THEN t1
                   ELSE [t1 EXCEPT ![depends_on_id].blocks = Append(@, task_id)]
             t3 == IF t2[depends_on_id].status # COMPLETED /\ t2[task_id].status = PENDING
                   THEN [t2 EXCEPT ![task_id].status = BLOCKED]
                   ELSE t2
         IN  [tasks |-> t3, err |-> "none"]

\* remove_dependency(task_id, depends_on_id)
remove_dependency(ts, task_id, depends_on_id) ==
    IF ~Exists(ts, task_id) THEN [tasks |-> ts, err |-> "TaskNotFound"]
    ELSE IF ~Exists(ts, depends_on_id) THEN [tasks |-> ts, err |-> "DependencyNotFound"]
    ELSE [tasks |-> [ts EXCEPT
                       ![task_id].depends_on = RemoveFirst(@, depends_on_id),
                       ![depends_on_id].blocks = RemoveFirst(@, task_id)],
          err |-> "none"]

\* a priority_order that ranks every priority alike
priority_order_flat(p) == 2

\* priority_order of get_next_executable_task
priority_order(p) ==
    CASE p = "critical" -> 0 [] p = "high" -> 1 [] p = "medium" -> 2
      [] p = "low" -> 3 [] OTHER -> 999

\* an executability test that forgets the subtasks
_is_task_executable_nosub(ts, id) ==
    /\ \A i \in 1..Len(ts[id].depends_on) :
          LET d == ts[id].depends_on[i] IN Exists(ts, d) /\ ts[d].status = COMPLETED
    /\ ts[id].parent_id # 0 =>
          /\ Exists(ts, ts[id].parent_id)
          /\ ts[ts[id].parent_id].status \in {IN_PROGRESS, COMPLETED}

\* an executability test that does not look at the parent
_is_task_executable_noparent(ts, id) ==
    /\ \A i \in 1..Len(ts[id].depends_on) :
          LET d == ts[id].depends_on[i] IN Exists(ts, d) /\ ts[d].status = COMPLETED
    /\ \A i \in 1..Len(ts[id].subtasks) :
          LET c == ts[id].subtasks[i] IN Exists(ts, c) /\ ts[c].status = COMPLETED

_is_task_executable(ts, id) ==
    /\ \A i \in 1..Len(ts[id].depends_on) :
          LET d == ts[id].depends_on[i] IN Exists(ts, d) /\ ts[d].status = COMPLETED
    /\ \A i \in 1..Len(ts[id].subtasks) :
          LET c == ts[id].subtasks[i] IN Exists(ts, c) /\ ts[c].status = COMPLETED
    /\ ts[id].parent_id # 0 =>
          /\ Exists(ts, ts[id].parent_id)
          /\ ts[ts[id].parent_id].status \in {IN_PROGRESS, COMPLETED}

\* get_next_executable_task: the Pending executable tasks in dict order,
\* stable-sorted by priority, first one (0: None)
get_next_executable_task(ts) ==
    LET ex == {id \in DOMAIN ts : ts[id].status = PENDING /\ _is_task_executable(ts, id)}
    IN  IF ex = {} THEN 0
        ELSE CHOOSE id \in ex : \A o \in ex :
                 \/ priority_order(ts[id].priority) < priority_order(ts[o].priority)
                 \/ /\ priority_order(ts[id].priority) = priority_order(ts[o].priority)
                    /\ id <= o

\* get_execution_order(task_ids): Kahn's algorithm
\* task_map: the ids of task_ids that exist
task_map(ts, task_ids) == {id \in Range(task_ids) : Exists(ts, id)}
\* an in-degree map that counts no dependency
in_degree_none(ts, task_ids) == [id \in task_map(ts, task_ids) |-> 0]
\* in_degree[task_id] = len(task.depends_on)
in_degree_init(ts, task_ids) ==
    [id \in task_map(ts, task_ids) |-> Len(ts[id].depends_on)]
\* queue = [tid for tid in task_ids if in_degree.get(tid, 0) == 0]
RECURSIVE zero_in_degree(_, _, _)
zero_in_degree(in_degree, task_ids, i) ==
    IF i > Len(task_ids) THEN <<>>
    ELSE LET tid == task_ids[i]
             zero == IF tid \in DOMAIN in_degree THEN in_degree[tid] = 0 ELSE TRUE
         IN  (IF zero THEN <<tid>> ELSE <<>>) \o zero_in_degree(in_degree, task_ids, i + 1)
\* for blocked_id in task.blocks: the in-degree map and the queue after the
\* entries from the i-th on
RECURSIVE reduce_blocked(_, _, _, _)
reduce_blocked(blocks, i, in_degree, queue) ==
    IF i > Len(blocks) THEN [in_degree |-> in_degree, queue |-> queue]
    ELSE LET b == blocks[i]
         IN  IF b \notin DOMAIN in_degree
             THEN reduce_blocked(blocks, i + 1, in_degree, queue)
             ELSE LET d == [in_degree EXCEPT ![b] = @ - 1]
                  IN  reduce_blocked(blocks, i + 1, d,
                                     IF d[b] = 0 THEN Append(queue, b) ELSE queue)
\* while queue: pop(0), append to result, reduce the blocked tasks
RECURSIVE kahn_loop(_, _, _, _)
kahn_loop(ts, in_degree, queue, result) ==
    IF queue = <<>> THEN result
    ELSE LET task_id == Head(queue)
         IN  IF ~Exists(ts, task_id)
             THEN kahn_loop(ts, in_degree, Tail(queue), result)
             ELSE LET r == reduce_blocked(ts[task_id].blocks, 1, in_degree, Tail(queue))
                  IN  kahn_loop(ts, r.in_degree, r.queue, Append(result, task_id))
get_execution_order(ts, task_ids) ==
    LET in_degree == in_degree_init(ts, task_ids)
        result == kahn_loop(ts, in_degree, zero_in_degree(in_degree, task_ids, 1), <<>>)
    IN  IF Len(result) # Cardinality(task_map(ts, task_ids))
        THEN [order |-> <<>>, err |-> "CycleDetected"]
        ELSE [order |-> result, err |-> "none"]

(* ------------------- Orchestrator: pure operations -------------------- *)
\* _are_dependencies_met(task)
_are_dependencies_met(ts, id) ==
    \A i \in 1..Len(ts[id].depends_on) :
        LET d == ts[id].depends_on[i] IN Exists(ts, d) /\ ts[d].status = COMPLETED

\* the body of _unblock_dependent_tasks' loop, from the i-th entry of blocks on
RECURSIVE unblock_from(_, _, _, _)
unblock_from(ts, blocks, i, now) ==
    IF i > Len(blocks) THEN ts
    ELSE LET b == blocks[i]
         IN  IF ~Exists(ts, b) \/ ts[b].status # BLOCKED
             THEN unblock_from(ts, blocks, i + 1, now)
             ELSE IF _are_dependencies_met(ts, b)
             THEN unblock_from(update_task(ts, b, [status |-> PENDING], now),
                               blocks, i + 1, now)
             ELSE unblock_from(ts, blocks, i + 1, now)

\* an unblocking that does not look at the dependent's other dependencies
_unblock_dependent_tasks_any(ts, completed_task_id, now) ==
    IF ~Exists(ts, completed_task_id) THEN ts
    ELSE [k \in DOMAIN ts |->
            IF Contains(ts[completed_task_id].blocks, k) /\ ts[k].status = BLOCKED
            THEN [ts[k] EXCEPT !.status = PENDING] ELSE ts[k]]

_unblock_dependent_tasks(ts, completed_task_id, now) ==
    IF ~Exists(ts, completed_task_id) THEN ts
    ELSE unblock_from(ts, ts[completed_task_id].blocks, 1, now)

\* a parent check that stops at the parent
_check_parent_completion_once(ts, parent_id, now) ==
    IF ~Exists(ts, parent_id) THEN ts
    ELSE IF ts[parent_id].status # IN_PROGRESS THEN ts
    ELSE IF /\ \A i \in 1..Len(ts[parent_id].subtasks) :
                  LET c == ts[parent_id].subtasks[i]
                  IN  Exists(ts, c) /\ ts[c].status = COMPLETED
            /\ Len(ts[parent_id].subtasks) > 0
    THEN update_task(ts, parent_id,
                     [status |-> COMPLETED,
                      result |-> AutoResult(Len(ts[parent_id].subtasks))], now)
    ELSE ts

RECURSIVE _check_parent_completion(_, _, _)
_check_parent_completion(ts, parent_id, now) ==
    IF ~Exists(ts, parent_id) THEN ts
    ELSE IF ts[parent_id].status # IN_PROGRESS THEN ts
    ELSE IF /\ \A i \in 1..Len(ts[parent_id].subtasks) :
                  LET c == ts[parent_id].subtasks[i]
                  IN  Exists(ts, c) /\ ts[c].status = COMPLETED
            /\ Len(ts[parent_id].subtasks) > 0
    THEN LET done == update_task(ts, parent_id,
                         [status |-> COMPLETED,
                          result |-> AutoResult(Len(ts[parent_id].subtasks))], now)
         IN  IF done[parent_id].parent_id # 0
             THEN _check_parent_completion(done, done[parent_id].parent_id, now)
             ELSE done
    ELSE ts

\* a completion handling that forgets the dependents
_handle_task_completion_no_unblock(ts, completed_task_id, now) ==
    IF Exists(ts, completed_task_id) /\ ts[completed_task_id].parent_id # 0
    THEN _check_parent_completion(ts, ts[completed_task_id].parent_id, now)
    ELSE ts

\* _handle_task_completion(completed_task_id)
_handle_task_completion(ts, completed_task_id, now) ==
    LET u == _unblock_dependent_tasks(ts, completed_task_id, now)
    IN  IF Exists(u, completed_task_id) /\ u[completed_task_id].parent_id # 0
        THEN _check_parent_completion(u, u[completed_task_id].parent_id, now)
        ELSE u

\* the task update of _handle_interrupt; a KeyError of update_task is caught
_handle_interrupt(ts, id, partial_result, now) ==
    IF ~Exists(ts, id) THEN ts
    ELSE update_task(ts, id, [status |-> PENDING, error |-> InterruptedByUser,
                              result |-> partial_result], now)

(* ----------------- InterruptController: pure operations ---------------- *)
\* InterruptType
NONE == "none"
SOFT == "soft"
HARD == "hard"
InterruptType == {NONE, SOFT, HARD}

\* InterruptState(requested, interrupt_type); InterruptState() is the default
InterruptState(requested, interrupt_type) ==
    [requested |-> requested, interrupt_type |-> interrupt_type]
\* InterruptController.__init__
InterruptController ==
    [_state |-> InterruptState(FALSE, NONE), _interrupt_event |-> FALSE,
     _interrupt_count |-> 0]

\* if self._interrupt_count > self._soft_interrupt_limit: interrupt_type = HARD
escalate(count, interrupt_type) ==
    IF count > soft_interrupt_limit THEN HARD ELSE interrupt_type

\* request_interrupt_sync: the whole body, as the signal handler runs it
request_interrupt_sync(c, interrupt_type) ==
    LET n == c._interrupt_count + 1
    IN  [_interrupt_count |-> n,
         _state |-> InterruptState(TRUE, escalate(n, interrupt_type)),
         _interrupt_event |-> TRUE]

\* reset_sync
reset_sync(c) ==
    [_state |-> InterruptState(FALSE, NONE), _interrupt_event |-> FALSE,
     _interrupt_count |-> 0]

\* check_interrupt() is not None
check_interrupt(c) == c._state.requested

\* what the callers of the controller asked for since the last reset that
\* returned: how many requests, and the type the last of them named
NoRequests == [n |-> 0, interrupt_type |-> NONE]
Asked(sn, interrupt_type) == [n |-> sn.n + 1, interrupt_type |-> interrupt_type]

\* no cooperative call is under way
NoCall ==
    [op |-> "none", at |-> "none", interrupt_type |-> NONE, loaded |-> 0, i |-> 0]

\* a callback: the id tells the callables apart; asyncio.iscoroutinefunction
\* of it; whether calling it raises an Exception
Callback(id, is_coroutine, raises) ==
    [id |-> id, is_coroutine |-> is_coroutine, raises |-> raises]
\* register_callback(callback)
register_callback(cbs, callback) == Append(cbs, callback)
\* unregister_callback(callback)
unregister_callback(cbs, callback) == RemoveFirst(cbs, callback)
\* one invocation callback(self._state), by the named method
Invocation(callback, by, state) == [id |-> callback.id, by |-> by, state |-> state]

\* a notification loop without the try: a callback that raises ends it
after_callback_uncaught(cbs, i) == IF cbs[i].raises THEN Len(cbs) + 1 ELSE i + 1
\* the for loop of request_interrupt after the i-th callback was called:
\* except Exception logs the error and the loop goes on
after_callback(cbs, i) == i + 1

\* the loop of request_interrupt_sync: the synchronous callbacks only, each
\* inside its own try
RECURSIVE notify_sync(_, _, _)
notify_sync(cbs, i, state) ==
    IF i > Len(cbs) THEN <<>>
    ELSE (IF cbs[i].is_coroutine THEN <<>>
          ELSE <<Invocation(cbs[i], "request_interrupt_sync", state)>>)
         \o notify_sync(cbs, i + 1, state)

(* ---------------------- HookEngine: pure operations -------------------- *)
\* the events hooks register for; "*" is the wildcard
HookEvents == {"E", "F", "*"}
\* HookEngine.__init__: no hook is registered
NoHooks == [e \in HookEvents |-> <<>>]
\* the priorities hooks register with (lower runs first)
HookPriorities == {10, 50}
\* what a hook does when its turn comes: should_run returns False; execute
\* returns Continue; execute returns Block with its reason; execute returns
\* Block and leaves reason None; should_run raises; execute raises
HookBehaviours ==
    {"skip", "continue", "block", "block_no_reason",
     "raise_in_should_run", "raise_in_execute"}
\* the reason strings: None, the text a hook gives, the engine's default
NoReason == [text |-> "none", of |-> 0]
ReasonOf(id) == [text |-> "reason of hook", of |-> id]
BlockedByHook == [text |-> "Blocked by hook", of |-> 0]
\* a registered hook: the id tells the Hook objects apart
Hook(id, priority, does) == [id |-> id, priority |-> priority, does |-> does]
\* HookResult(action, reason)
HookResult(action, reason) == [action |-> action, reason |-> reason]
\* what hook.execute returns when it returns
execute(h) ==
    CASE h.does = "block" -> HookResult("block", ReasonOf(h.id))
      [] h.does = "block_no_reason" -> HookResult("block", NoReason)
      [] OTHER -> HookResult("continue", NoReason)

\* a dict of the context: last, the value of the key every patching hook
\* writes; keys, the keys that only the hook of that id writes; none: the
\* value is None, not a dict
NoneDict == [none |-> TRUE, last |-> 0, keys |-> {}]
EmptyDict == [none |-> FALSE, last |-> 0, keys |-> {}]
PatchOf(id) == [none |-> FALSE, last |-> id, keys |-> {id}]
\* `if d:` of an Optional dict
truthy(d) == ~d.none /\ (d.last # 0 \/ d.keys # {})
\* dict.update(patch)
update(d, patch) ==
    [none |-> FALSE,
     last |-> IF patch.last # 0 THEN patch.last ELSE d.last,
     keys |-> d.keys \cup patch.keys]
\* HookResult.modified_context and HookResult.metadata of what execute returns
modified_context(h) == IF h.does = "patch_data" THEN PatchOf(h.id) ELSE NoneDict
metadata(h) == IF h.does = "patch_metadata" THEN PatchOf(h.id) ELSE NoneDict
\* what the hooks that patch do besides
PatchBehaviours ==
    {"skip", "continue", "patch_data", "patch_metadata", "block", "raise_in_execute"}
\* a trigger result of a loop that keeps no context
NoContext(r) ==
    [result |-> r.result, visited |-> r.visited, raised |-> r.raised,
     data |-> NoneDict, metadata |-> NoneDict, saw |-> <<>>]

\* list.sort(key=lambda x: x[0]): stable, lower priority number first
RECURSIVE sort_by_priority(_)
sort_by_priority(hs) ==
    IF hs = <<>> THEN <<>>
    ELSE LET m == CHOOSE p \in {hs[i].priority : i \in 1..Len(hs)} :
                      \A i \in 1..Len(hs) : p <= hs[i].priority
             first(h) == h.priority = m
             rest(h) == h.priority # m
         IN  SelectSeq(hs, first) \o sort_by_priority(SelectSeq(hs, rest))

\* register(event, hook, priority)
register(reg, event, hook) ==
    [reg EXCEPT ![event] = sort_by_priority(Append(@, hook))]

\* all_hooks = event_hooks + wildcard_hooks, sorted by priority
all_hooks(reg, event) == sort_by_priority(reg[event] \o reg["*"])

\* the for loop of trigger from the i-th hook on; visited lists the hooks
\* whose should_run was called, saw what context.data and context.metadata
\* were when execute was called.  An exception of should_run or execute is
\* caught inside the loop body and the loop goes on.  data, metadata of the
\* outcome: modified_context and metadata of the HookResult returned
RECURSIVE run_hooks(_, _, _, _, _, _)
run_hooks(chain, i, visited, data, meta, saw) ==
    IF i > Len(chain)
    THEN [result |-> HookResult("continue", NoReason), visited |-> visited,
          raised |-> FALSE, data |-> data, metadata |-> meta, saw |-> saw]
    ELSE LET h == chain[i]
             seen_h == Append(visited, h.id)
             saw_h == Append(saw, [id |-> h.id, data |-> data, metadata |-> meta])
         IN  CASE h.does \in {"skip", "raise_in_should_run"} ->
                     run_hooks(chain, i + 1, seen_h, data, meta, saw)
               [] h.does = "raise_in_execute" ->
                     run_hooks(chain, i + 1, seen_h, data, meta, saw_h)
               [] OTHER ->
                     LET result == execute(h)
                         data2 == IF truthy(modified_context(h))
                                  THEN update(data, modified_context(h)) ELSE data
                         meta2 == IF truthy(metadata(h))
                                  THEN update(meta, metadata(h)) ELSE meta
                     IN  IF result.action = "block"
                         THEN [result |-> HookResult("block",
                                   IF result.reason # NoReason THEN result.reason
                                   ELSE BlockedByHook),
                               visited |-> seen_h, raised |-> FALSE,
                               data |-> data2, metadata |-> NoneDict, saw |-> saw_h]
                         ELSE run_hooks(chain, i + 1, seen_h, data2, meta2, saw_h)
\* the loop with exceptions let through: the first hook that raises ends it
RECURSIVE run_hooks_uncaught(_, _, _)
run_hooks_uncaught(chain, i, visited) ==
    IF i > Len(chain)
    THEN [result |-> HookResult("continue", NoReason), visited |-> visited,
          raised |-> FALSE]
    ELSE LET h == chain[i]
             seen_h == Append(visited, h.id)
         IN  CASE h.does = "skip" -> run_hooks_uncaught(chain, i + 1, seen_h)
               [] h.does \in {"raise_in_should_run", "raise_in_execute"} ->
                     [result |-> HookResult("continue", NoReason),
                      visited |-> seen_h, raised |-> TRUE]
               [] OTHER ->
                     LET result == execute(h)
                     IN  IF result.action = "block"
                         THEN [result |-> HookResult("block",
                                   IF result.reason # NoReason THEN result.reason
                                   ELSE BlockedByHook),
                               visited |-> seen_h, raised |-> FALSE]
                         ELSE run_hooks_uncaught(chain, i + 1, seen_h)
\* the loop that notes a Block and runs the remaining hooks all the same
RECURSIVE run_hooks_through(_, _, _)
run_hooks_through(chain, i, visited) ==
    IF i > Len(chain)
    THEN [result |-> HookResult("continue", NoReason), visited |-> visited,
          raised |-> FALSE]
    ELSE LET h == chain[i]
             later == run_hooks_through(chain, i + 1, Append(visited, h.id))
         IN  IF h.does \in {"block", "block_no_reason"}
             THEN [later EXCEPT !.result = HookResult("block",
                       IF execute(h).reason # NoReason THEN execute(h).reason
                       ELSE BlockedByHook)]
             ELSE later

trigger_uncaught(reg, event) ==
    NoContext(run_hooks_uncaught(all_hooks(reg, event), 1, <<>>))
trigger_through(reg, event) ==
    NoContext(run_hooks_through(all_hooks(reg, event), 1, <<>>))
\* a trigger that hands every hook the data and metadata of the call
trigger_unpatched(reg, event) ==
    LET r == run_hooks(all_hooks(reg, event), 1, <<>>, EmptyDict, EmptyDict, <<>>)
    IN  IF all_hooks(reg, event) = <<>>
        THEN [r EXCEPT !.data = NoneDict, !.metadata = NoneDict]
        ELSE [r EXCEPT !.saw = [k \in 1..Len(r.saw) |->
                                   [r.saw[k] EXCEPT !.data = EmptyDict,
                                                    !.metadata = EmptyDict]]]

\* HookEngine.trigger(event, data) of an enabled engine, called with the
\* event's data and no metadata
trigger(reg, event) ==
    IF all_hooks(reg, event) = <<>>
    THEN [result |-> HookResult("continue", NoReason), visited |-> <<>>,
          raised |-> FALSE, data |-> NoneDict, metadata |-> NoneDict, saw |-> <<>>]
    ELSE run_hooks(all_hooks(reg, event), 1, <<>>, EmptyDict, EmptyDict, <<>>)

(* -------------------- SubagentManager: pure operations ------------------ *)
\* the subagents the model spawns
Subagents == 1..MaxSubagents
\* SubagentStatus
SUB_PENDING == "pending"
SUB_RUNNING == "running"
SUB_COMPLETED == "completed"
SUB_FAILED == "failed"
SUB_TIMEOUT == "timeout"
SUB_CANCELLED == "cancelled"
\* SubagentHandle.is_done()
is_done(h) == h.status \in {SUB_COMPLETED, SUB_FAILED, SUB_TIMEOUT, SUB_CANCELLED}

\* A handle: its status, the state of its _future ("pending", "result",
\* "timeout", "exception", "cancelled"), whether _active_subagents holds it,
\* and where the task running _execute_subagent for it is: "waiting" for the
\* semaphore, "running" the child inside the try, "leaving" (the status is
\* written; the hooks and both finally blocks are still to run), "done".
\* result: handle.result is set; error: handle.error (None, or one of the
\* texts below).  "none" everywhere: not spawned.
NoHandle ==
    [status |-> "none", at |-> "none", future |-> "none", active |-> FALSE,
     result |-> FALSE, error |-> "none"]
\* the texts of handle.error
SubagentTimeout == "Subagent timeout after ...s"
ExecutionFailed == "Subagent execution failed: ..."
CancelledByShutdown == "Cancelled by manager shutdown"
ExceptionText == "str(e)"
NoHandles == [i \in Subagents |-> NoHandle]
\* spawn: SubagentHandle(status=PENDING), _future = asyncio.Future(), registered
SubagentHandle ==
    [status |-> SUB_PENDING, at |-> "waiting", future |-> "pending", active |-> TRUE,
     result |-> FALSE, error |-> "none"]

\* a semaphore that never makes a task wait, one whose slots are never
\* given back
locked_never(sem) == FALSE
release_none(sem) == sem
\* asyncio.Semaphore.locked(): no free slot
locked(sem) == sem <= 0
\* asyncio.Semaphore.release(), on every exit of the async with block
release(sem) == sem + 1

\* the outer except of _execute_subagent: Failed with the error text; on a
\* future that is done or cancelled set_exception raises InvalidStateError
\* out of the handler
execution_failed(h) ==
    [h EXCEPT !.status = SUB_FAILED, !.error = ExecutionFailed,
              !.future = IF @ = "pending" THEN "exception" ELSE @]

\* the child ended with outcome: the status, result, error and future it
\* leaves.  On a future that is already cancelled set_result / set_exception
\* raise InvalidStateError after the status is written, and the outer except
\* turns the handle into Failed
child_ended(h, outcome) ==
    LET written ==
            CASE outcome = "returned" ->
                     [h EXCEPT !.status = SUB_COMPLETED, !.result = TRUE]
              [] outcome = "timeout" ->
                     [h EXCEPT !.status = SUB_TIMEOUT, !.error = SubagentTimeout]
              [] OTHER -> h
        stored ==
            CASE outcome = "returned" /\ h.future = "pending" ->
                     [written EXCEPT !.future = "result"]
              [] outcome = "timeout" /\ h.future = "pending" ->
                     [written EXCEPT !.future = "timeout"]
              [] OTHER -> execution_failed(written)
    IN  [stored EXCEPT !.at = "leaving"]

\* a shutdown that marks the handles that are done as well
cancelled_by_shutdown_all(h) ==
    IF ~h.active THEN h
    ELSE [h EXCEPT !.status = SUB_CANCELLED, !.error = CancelledByShutdown,
                   !.active = FALSE,
                   !.future = IF @ = "pending" THEN "cancelled" ELSE @]

\* SubagentManager.shutdown on one handle of _active_subagents
cancelled_by_shutdown(h) ==
    IF ~h.active THEN h
    ELSE IF is_done(h) THEN [h EXCEPT !.active = FALSE]
    ELSE [h EXCEPT !.status = SUB_CANCELLED, !.error = CancelledByShutdown,
                   !.active = FALSE,
                   !.future = IF @ = "pending" THEN "cancelled" ELSE @]

\* SubagentHandle.wait(timeout) as far as it writes the handle: the timeout
\* passes on a pending future (wait_for cancels the future), or the future
\* is done
wait(h) ==
    CASE h.future = "pending" ->
             [h EXCEPT !.status = SUB_TIMEOUT, !.error = SubagentTimeout,
                       !.future = "cancelled"]
      [] h.future = "result" -> [h EXCEPT !.status = SUB_COMPLETED, !.result = TRUE]
      [] h.future = "timeout" ->
             [h EXCEPT !.status = SUB_TIMEOUT, !.error = SubagentTimeout]
      [] h.future = "exception" ->
             [h EXCEPT !.status = SUB_FAILED, !.error = ExceptionText]
      [] OTHER -> h

(* ------------------- the loops that call _execute_task ------------------ *)
\* list_tasks(parent_id=p): the tasks whose parent is p, in the store's order
list_tasks(ts, parent_id) == Sorted({t \in DOMAIN ts : ts[t].parent_id = parent_id})

\* The caller of _execute_task: none of the two loops ("none": any other
\* caller), run, or _execute_subtasks_recursive.  state: "off"; "loop" between
\* two tasks; "in_task" while _execute_task runs; and how the call ended:
\* "stopped" (run found no executable task), "returned", "raised".  frames
\* are the activations of _execute_subtasks_recursive, the innermost last:
\* the subtasks listed on entry and the position of the for loop.
NoCaller == [of |-> "none", state |-> "off", frames |-> <<>>]
Frame(ts, parent_id) == [ids |-> list_tasks(ts, parent_id), i |-> 1]

\* _execute_task ends and control is back in the caller.  run has no handler
\* that swallows the exception (except: raise; finally: shutdown), and
\* _execute_subtasks_recursive has none at all: the exception leaves every
\* activation.  After a normal return the subtask loop descends into the
\* subtasks of the task it just ran.
returned_to(c, ts, id, raised) ==
    CASE c.of = "none" -> c
      [] c.of = "run" -> [c EXCEPT !.state = IF raised THEN "raised" ELSE "loop"]
      [] OTHER ->
           IF raised THEN [c EXCEPT !.state = "raised", !.frames = <<>>]
           ELSE [c EXCEPT !.state = "loop",
                          !.frames = Append([@ EXCEPT ![Len(@)].i = @ + 1],
                                            Frame(ts, id))]
\* callers that catch what _execute_task raises and go on
returned_to_catching(c, ts, id, raised) ==
    CASE c.of = "none" -> c
      [] c.of = "run" -> [c EXCEPT !.state = "loop"]
      [] OTHER ->
           IF raised THEN [c EXCEPT !.state = "loop",
                                    !.frames = [@ EXCEPT ![Len(@)].i = @ + 1]]
           ELSE [c EXCEPT !.state = "loop",
                          !.frames = Append([@ EXCEPT ![Len(@)].i = @ + 1],
                                            Frame(ts, id))]

(* ------------------------------ state --------------------------------- *)
\* Orchestrator._check_interrupt
intRequested == check_interrupt(ic)

\* priorities of the tasks the model creates
CreatePriorities == {"medium"}

\* the engine between two runs of _execute_task
Idle ==
    /\ pc = "idle" /\ cur = 0 /\ iter = 0 /\ text = FALSE
    /\ toolsLeft = 0 /\ loopResult = NoResult
\* _execute_task is left
BecomeIdle ==
    /\ pc' = "idle" /\ cur' = 0 /\ iter' = 0 /\ text' = FALSE
    /\ toolsLeft' = 0 /\ loopResult' = NoResult

(* ---------------------------- mode manager ----------------------------- *)
ASK == "ask"
PLAN == "plan"
EXECUTE == "execute"
ExecutionMode == {ASK, PLAN, EXECUTE}
\* MODE_CONFIGS: allowed_tools and blocked_tools of every mode
MODE_CONFIGS ==
    [m \in ExecutionMode |->
        CASE m = ASK ->
               [mode |-> ASK,
                allowed_tools |-> <<"file_read", "web_fetch", "bash", "todo_list">>,
                blocked_tools |-> <<>>]
          [] m = PLAN ->
               [mode |-> PLAN,
                allowed_tools |-> <<"file_read", "web_fetch", "task_decompose">>,
                blocked_tools |-> <<>>]
          [] m = EXECUTE ->
               [mode |-> EXECUTE,
                allowed_tools |-> <<>>,
                blocked_tools |-> <<"task_decompose">>]]
\* ModeManager.__init__(initial_mode = EXECUTE); schemas, filtered: the
\* argument and the result of the last filter_tool_schemas
ModeManager ==
    [current_mode |-> EXECUTE, mode_config |-> MODE_CONFIGS[EXECUTE],
     schemas |-> <<>>, filtered |-> <<>>]

\* ModeManager.set_mode(mode)
set_mode(m, mode) ==
    IF mode # m.current_mode
    THEN [m EXCEPT !.current_mode = mode, !.mode_config = MODE_CONFIGS[mode]]
    ELSE m

\* ModeManager.is_tool_allowed(tool_name)
is_tool_allowed(m, tool_name) ==
    IF Contains(m.mode_config.blocked_tools, tool_name) THEN FALSE
    ELSE IF m.current_mode = EXECUTE THEN TRUE
    ELSE Contains(m.mode_config.allowed_tools, tool_name)

\* a filter_tool_schemas that does not remove the blocked tools
filter_tool_schemas_unblocked(m, all_schemas) ==
    LET allowed_names == Range(m.mode_config.allowed_tools)
        Allowed(schema) == schema.name \in allowed_names
    IN  IF m.current_mode = EXECUTE THEN all_schemas
        ELSE SelectSeq(all_schemas, Allowed)

\* ModeManager.filter_tool_schemas(all_schemas)
filter_tool_schemas(m, all_schemas) ==
    LET blocked_names == Range(m.mode_config.blocked_tools)
        NotBlocked(schema) == schema.name \notin blocked_names
        schemas_without_blocked == SelectSeq(all_schemas, NotBlocked)
        allowed_names == Range(m.mode_config.allowed_tools)
        Allowed(schema) == schema.name \in allowed_names
    IN  IF m.current_mode = EXECUTE THEN schemas_without_blocked
        ELSE SelectSeq(schemas_without_blocked, Allowed)

(* ------------------------- approval hook (HITL) ------------------------ *)
\* the tools an approval event can name
ApprovalTools == {"bash", "file_write", "file_delete"}
\* what _prompt_user_enhanced gives: the answer typed, or the prompt times out
Answers == {"yes", "always", "no", "timeout"}
\* config.get("auto_approve_safe_tools", True)
auto_approve_safe_tools == TRUE
\* no approval event handled yet
NoApproval == [tool |-> "none", prompted |-> FALSE, answer |-> "none", action |-> "none"]
\* HITLHook.__init__ without a workspace; has_whitelist: the key
\* "approval_whitelist" is in workspace.user_preferences, tools: its "tools" list
HITLHook == [workspace |-> FALSE, has_whitelist |-> FALSE, tools |-> <<>>,
             last |-> NoApproval]
\* the entry _add_to_whitelist appends (approved_at, a timestamp, left out)
WhitelistEntry(tool_name) == [tool_name |-> tool_name, match_type |-> "tool_name_only"]
\* the approval whitelists a workspace loaded from disk can carry: none,
\* a cleared one, one with an entry
LoadedWhitelists ==
    {[has_whitelist |-> FALSE, tools |-> <<>>],
     [has_whitelist |-> TRUE, tools |-> <<>>],
     [has_whitelist |-> TRUE, tools |-> <<WhitelistEntry("bash")>>]}

\* HITLHook._is_whitelisted(tool_name)
is_whitelisted(h, tool_name) ==
    IF ~h.workspace THEN FALSE
    ELSE \E i \in 1..Len(h.tools) : h.tools[i].tool_name = tool_name

\* an _add_to_whitelist that appends without looking for the tool
add_to_whitelist_unchecked(h, tool_name) ==
    IF ~h.workspace THEN h
    ELSE [h EXCEPT !.has_whitelist = TRUE, !.tools = Append(@, WhitelistEntry(tool_name))]

\* HITLHook._add_to_whitelist(tool_name)
add_to_whitelist(h, tool_name) ==
    IF ~h.workspace THEN h
    ELSE LET w == [h EXCEPT !.has_whitelist = TRUE]
         IN  IF is_whitelisted(w, tool_name) THEN w
             ELSE [w EXCEPT !.tools = Append(@, WhitelistEntry(tool_name))]

\* HITLHook.execute(context) with the answer the prompt gets if it is shown
hitl_execute(h, tool_name, requires_approval, answer) ==
    IF auto_approve_safe_tools /\ ~requires_approval
    THEN [h EXCEPT !.last = [tool |-> tool_name, prompted |-> FALSE,
                             answer |-> "none", action |-> "continue"]]
    ELSE IF is_whitelisted(h, tool_name)
    THEN [h EXCEPT !.last = [tool |-> tool_name, prompted |-> FALSE,
                             answer |-> "none", action |-> "continue"]]
    ELSE IF answer \in {"yes", "always"}
    THEN [(IF answer = "always" THEN add_to_whitelist(h, tool_name) ELSE h) EXCEPT
             !.last = [tool |-> tool_name, prompted |-> TRUE,
                       answer |-> answer, action |-> "continue"]]
    ELSE [h EXCEPT !.last = [tool |-> tool_name, prompted |-> TRUE,
                             answer |-> answer, action |-> "block"]]

\* the state after construction, the hook engine built with
\* config "enabled" = e
StartEngine(b, e) ==
    /\ tasks = <<>>
    /\ nextId = 1
    /\ clock = 1
    /\ ret = Returned
    /\ Idle
    /\ ic = InterruptController
    /\ co = NoCall
    /\ seen = NoRequests
    /\ callbacks = <<>>
    /\ notified = <<>>
    /\ hooks = NoHooks
    /\ enabled = e
    /\ handles = NoHandles
    /\ semaphore = max_concurrent
    /\ hitl = HITLHook
    /\ modes = ModeManager
    /\ caller = NoCaller
    /\ budget = b
\* the same with the hooks enabled in the configuration
Start(b) == StartEngine(b, TRUE)

(* ---------------- scheduler operations called from outside ------------- *)
\* a successful creation needs a fresh id of the model
CanCreate(r) == r.err # "none" \/ budget.tasks > 0
Created(r) ==
    /\ nextId' = IF r.err = "none" THEN nextId + 1 ELSE nextId
    /\ budget' = IF r.err = "none" THEN [budget EXCEPT !.tasks = @ - 1] ELSE budget

CreateTask(prio) ==
    /\ pc = "idle"
    /\ LET r == create_task(tasks, nextId, Task(0, prio))
       IN  /\ CanCreate(r)
           /\ tasks' = r.tasks
           /\ Created(r)
           /\ ret' = Outcome("create_task", r.err)
    /\ UNCHANGED <<clock, engineVars, controllerVars, componentVars, caller>>

CreateSubtask(parent, prio) ==
    /\ pc = "idle"
    /\ LET r == create_subtask(tasks, parent, nextId, prio)
       IN  /\ CanCreate(r)
           /\ tasks' = r.tasks
           /\ Created(r)
           /\ ret' = Outcome("create_subtask", r.err)
    /\ UNCHANGED <<clock, engineVars, controllerVars, componentVars, caller>>

AddDependency(a, b) ==
    /\ pc = "idle"
    /\ LET r == add_dependency(tasks, a, b)
       IN  /\ tasks' = r.tasks
           /\ ret' = Outcome("add_dependency", r.err)
    /\ UNCHANGED <<nextId, clock, engineVars, controllerVars, componentVars, caller, budget>>

RemoveDependency(a, b) ==
    /\ pc = "idle"
    /\ LET r == remove_dependency(tasks, a, b)
       IN  /\ tasks' = r.tasks
           /\ ret' = Outcome("remove_dependency", r.err)
    /\ UNCHANGED <<nextId, clock, engineVars, controllerVars, componentVars, caller, budget>>

\* update_task(id, {"status": s}) by the embedding caller
UpdateTask(id, s) ==
    /\ pc = "idle"
    /\ budget.api > 0
    /\ budget' = [budget EXCEPT !.api = @ - 1]
    /\ IF Exists(tasks, id)
       THEN /\ tasks' = update_task(tasks, id, [status |-> s], clock)
            /\ ret' = Returned
       ELSE /\ tasks' = tasks
            /\ ret' = Outcome("update_task", "TaskNotFound")
    /\ UNCHANGED <<nextId, clock, engineVars, controllerVars, componentVars, caller>>

DeleteTask(id) ==
    /\ pc = "idle"
    /\ budget.api > 0
    /\ budget' = [budget EXCEPT !.api = @ - 1]
    /\ IF Exists(tasks, id)
       THEN /\ tasks' = delete_task(tasks, id)
            /\ ret' = Returned
       ELSE /\ tasks' = tasks
            /\ ret' = Outcome("delete_task", "NotDeleted")
    /\ UNCHANGED <<nextId, clock, engineVars, controllerVars, componentVars, caller>>

GetNextExecutableTask ==
    /\ pc = "idle"
    /\ ret' = Ret("get_next_executable_task", "none", get_next_executable_task(tasks))
    /\ UNCHANGED <<tasks, nextId, clock, engineVars, controllerVars, componentVars, caller, budget>>

\* get_execution_order(task_ids) on ids of the store, in any order
GetExecutionOrder(task_ids) ==
    /\ pc = "idle"
    /\ LET r == get_execution_order(tasks, task_ids)
       IN  ret' = [Ret("get_execution_order", r.err, 0) EXCEPT
                      !.ids = task_ids, !.out = r.order]
    /\ UNCHANGED <<tasks, nextId, clock, engineVars, controllerVars, componentVars, caller, budget>>

(* --------------------------- environment ------------------------------- *)
\* time passes
Tick ==
    /\ clock < MaxClock
    /\ clock' = clock + 1
    /\ UNCHANGED <<tasks, nextId, ret, engineVars, controllerVars, componentVars, caller, budget>>

\* the SIGINT handler of the command line: request_interrupt_sync(SOFT)
RequestInterrupt ==
    /\ budget.intr > 0
    /\ budget' = [budget EXCEPT !.intr = @ - 1]
    /\ ic' = request_interrupt_sync(ic, SOFT)
    /\ seen' = Asked(seen, SOFT)
    /\ notified' = (IF co = NoCall THEN <<>> ELSE notified)
                        \o notify_sync(callbacks, 1, ic'._state)
    /\ UNCHANGED <<tasks, nextId, clock, ret, engineVars, co, callbacks, componentVars,
                   caller>>

(* ------------------------ interrupt controller ------------------------- *)
\* The command line installs request_interrupt_sync as the SIGINT handler
\* (cli.py): the handler runs in the main thread between two bytecodes of
\* whatever is running, the body of a cooperative call included, and runs to
\* completion.  The asyncio lock of the cooperative calls is not taken by the
\* handler.  A cooperative call is therefore a sequence of steps, one per
\* statement, and the blocking calls are single steps.
ControllerAndCallbacks ==
    UNCHANGED <<tasks, nextId, clock, ret, engineVars, budget, componentVars, caller>>
ControllerOnly == ControllerAndCallbacks /\ UNCHANGED callbackVars

\* the model makes at most MaxRequests requests between two resets and stops
\* requesting once the counter is there
CanRequest == seen.n < MaxRequests /\ ic._interrupt_count < MaxRequests

\* request_interrupt_sync(interrupt_type)
RequestInterruptSync(interrupt_type) ==
    /\ CanRequest
    /\ ic' = request_interrupt_sync(ic, interrupt_type)
    /\ seen' = Asked(seen, interrupt_type)
    /\ notified' = (IF co = NoCall THEN <<>> ELSE notified)
                        \o notify_sync(callbacks, 1, ic'._state)
    /\ UNCHANGED <<co, callbacks>>
    /\ ControllerAndCallbacks

\* reset_sync()
ResetSync ==
    /\ ic' = reset_sync(ic)
    /\ seen' = NoRequests
    /\ UNCHANGED co
    /\ ControllerOnly

\* request_interrupt(interrupt_type): async with self._lock
RequestInterruptEnter(interrupt_type) ==
    /\ co = NoCall
    /\ CanRequest
    /\ co' = [NoCall EXCEPT !.op = "request_interrupt", !.at = "count",
                            !.interrupt_type = interrupt_type]
    /\ notified' = <<>>
    /\ UNCHANGED <<ic, seen, callbacks>>
    /\ ControllerAndCallbacks

\* self._interrupt_count += 1, with no signal between its read and its write
RequestInterruptCount ==
    /\ co.op = "request_interrupt" /\ co.at = "count"
    /\ ic' = [ic EXCEPT !._interrupt_count = @ + 1]
    /\ co' = [co EXCEPT !.at = "escalate"]
    /\ UNCHANGED seen
    /\ ControllerOnly

\* the same on an interpreter that lets a signal in between the read ...
RequestInterruptCountLoad ==
    /\ co.op = "request_interrupt" /\ co.at = "count"
    /\ co' = [co EXCEPT !.at = "store", !.loaded = ic._interrupt_count]
    /\ UNCHANGED <<ic, seen>>
    /\ ControllerOnly

\* ... and the write
RequestInterruptCountStore ==
    /\ co.op = "request_interrupt" /\ co.at = "store"
    /\ ic' = [ic EXCEPT !._interrupt_count = co.loaded + 1]
    /\ co' = [co EXCEPT !.at = "escalate", !.loaded = 0]
    /\ UNCHANGED seen
    /\ ControllerOnly

\* if self._interrupt_count > self._soft_interrupt_limit: interrupt_type = HARD
RequestInterruptEscalate ==
    /\ co.op = "request_interrupt" /\ co.at = "escalate"
    /\ co' = [co EXCEPT !.at = "state",
                        !.interrupt_type = escalate(ic._interrupt_count, @)]
    /\ UNCHANGED <<ic, seen>>
    /\ ControllerOnly

\* self._state = InterruptState(requested=True, interrupt_type=...)
RequestInterruptState ==
    /\ co.op = "request_interrupt" /\ co.at = "state"
    /\ ic' = [ic EXCEPT !._state = InterruptState(TRUE, co.interrupt_type)]
    /\ co' = [co EXCEPT !.at = "event"]
    /\ UNCHANGED seen
    /\ ControllerOnly

\* self._interrupt_event.set(); the lock is released
RequestInterruptEvent ==
    /\ co.op = "request_interrupt" /\ co.at = "event"
    /\ ic' = [ic EXCEPT !._interrupt_event = TRUE]
    /\ co' = [co EXCEPT !.at = "notify", !.i = 1]
    /\ seen' = Asked(seen, co.interrupt_type)
    /\ ControllerOnly

\* for callback in self._callbacks: one turn of the loop.  The callback is
\* called, or awaited when it is a coroutine function, with self._state
RequestInterruptNotify ==
    /\ co.op = "request_interrupt" /\ co.at = "notify"
    /\ co.i <= Len(callbacks)
    /\ notified' = Append(notified,
                          Invocation(callbacks[co.i], "request_interrupt", ic._state))
    /\ co' = [co EXCEPT !.i = after_callback(callbacks, co.i)]
    /\ UNCHANGED <<ic, seen, callbacks>>
    /\ ControllerAndCallbacks

\* the loop is exhausted and request_interrupt returns
RequestInterruptReturn ==
    /\ co.op = "request_interrupt" /\ co.at = "notify"
    /\ co.i > Len(callbacks)
    /\ co' = NoCall
    /\ UNCHANGED <<ic, seen>>
    /\ ControllerOnly

\* register_callback(callback), between two calls of the controller
RegisterCallback(is_coroutine, raises) ==
    /\ co = NoCall
    /\ Len(callbacks) < MaxCallbacks
    /\ LET id == CHOOSE k \in 1..MaxCallbacks :
                     \A i \in 1..Len(callbacks) : callbacks[i].id # k
       IN  callbacks' = register_callback(callbacks, Callback(id, is_coroutine, raises))
    /\ UNCHANGED <<ic, co, seen, notified>>
    /\ ControllerAndCallbacks

\* unregister_callback(callback), between two calls of the controller
UnregisterCallback(i) ==
    /\ co = NoCall
    /\ i \in 1..Len(callbacks)
    /\ callbacks' = unregister_callback(callbacks, callbacks[i])
    /\ UNCHANGED <<ic, co, seen, notified>>
    /\ ControllerAndCallbacks

\* reset(): async with self._lock
ResetEnter ==
    /\ co = NoCall
    /\ co' = [NoCall EXCEPT !.op = "reset", !.at = "state"]
    /\ UNCHANGED <<ic, seen>>
    /\ ControllerOnly

\* self._state = InterruptState()
ResetState ==
    /\ co.op = "reset" /\ co.at = "state"
    /\ ic' = [ic EXCEPT !._state = InterruptState(FALSE, NONE)]
    /\ co' = [co EXCEPT !.at = "event"]
    /\ UNCHANGED seen
    /\ ControllerOnly

\* self._interrupt_event.clear()
ResetEvent ==
    /\ co.op = "reset" /\ co.at = "event"
    /\ ic' = [ic EXCEPT !._interrupt_event = FALSE]
    /\ co' = [co EXCEPT !.at = "count"]
    /\ UNCHANGED seen
    /\ ControllerOnly

\* self._interrupt_count = 0, and the call returns
ResetCount ==
    /\ co.op = "reset" /\ co.at = "count"
    /\ ic' = [ic EXCEPT !._interrupt_count = 0]
    /\ co' = NoCall
    /\ seen' = NoRequests
    /\ ControllerOnly

(* ----------------------------- hook engine ----------------------------- *)
HooksOnly ==
    UNCHANGED <<tasks, nextId, clock, engineVars, controllerVars, enabled, handles,
                semaphore, hitl, modes, caller, budget>>
\* hooks registered so far
Registered == Len(hooks["E"]) + Len(hooks["F"]) + Len(hooks["*"])

\* HookEngine.register(event, hook, priority)
Register(event, priority, does) ==
    /\ Registered < MaxHooks
    /\ hooks' = register(hooks, event, Hook(Registered + 1, priority, does))
    /\ ret' = Returned
    /\ HooksOnly

\* a bus that runs its hooks whether it is enabled or not
_trigger_hook_always(en, reg, event) == trigger(reg, event)

\* Orchestrator._trigger_hook(event, data), and the first test of
\* HookEngine.trigger: a disabled engine returns HookResult("continue")
_trigger_hook(en, reg, event) ==
    IF ~en
    THEN [result |-> HookResult("continue", NoReason), visited |-> <<>>,
          raised |-> FALSE, data |-> NoneDict, metadata |-> NoneDict, saw |-> <<>>]
    ELSE trigger(reg, event)

\* the events of the two gates of _execute_tool
BeforeExecute == "E"
RequiresApprovalEvent == "F"
\* HITLHook.priority, the priority the gate hooks register with
HitlPriority == 50
\* what a hook of a gate does
GateBehaviours == {"skip", "continue", "block"}
\* no event was triggered
NotTriggered == [action |-> "none", visited |-> <<>>]

\* HookEngine(config): the engine is built, enabled or not (the default)
HookEngineInit(config_enabled) ==
    /\ Registered = 0
    /\ enabled' = config_enabled
    /\ ret' = Returned
    /\ UNCHANGED <<tasks, nextId, clock, engineVars, controllerVars, hooks, handles,
                   semaphore, hitl, modes, caller, budget>>

\* await HookEngine.trigger(event, data)
Trigger(event) ==
    /\ LET r == _trigger_hook(enabled, hooks, event)
       IN  ret' = [Ret("trigger", IF r.raised THEN "raised" ELSE "none", 0) EXCEPT
                      !.ids = r.visited,
                      !.out = <<event, r.result, r.data, r.metadata, r.saw>>]
    /\ UNCHANGED hooks
    /\ HooksOnly

(* ----------------------------- mode manager ---------------------------- *)
ModesOnly ==
    UNCHANGED <<tasks, nextId, clock, ret, engineVars, controllerVars, hooks, enabled,
                handles, semaphore, hitl, caller, budget>>
\* the names of the tool schemas handed to the filter
SchemaNames == {"file_read", "bash", "task_decompose", "file_write"}
\* schemas in one list handed to the filter
MaxSchemas == 3
\* the lists of tool schemas: a schema is known by its name
SchemaLists ==
    UNION {[1..n -> {[name |-> x] : x \in SchemaNames}] : n \in 0..MaxSchemas}

\* mode_manager.set_mode(mode)
SetMode(mode) ==
    /\ modes' = set_mode(modes, mode)
    /\ ModesOnly

\* mode_manager.filter_tool_schemas(all_schemas)
FilterToolSchemas(all_schemas) ==
    /\ modes' = [modes EXCEPT !.schemas = all_schemas,
                              !.filtered = filter_tool_schemas(modes, all_schemas)]
    /\ ModesOnly

(* ----------------------------- approval hook --------------------------- *)
HitlOnly ==
    UNCHANGED <<tasks, nextId, clock, ret, engineVars, controllerVars, hooks, enabled,
                handles, semaphore, modes, caller, budget>>

\* Orchestrator._inject_workspace_to_hitl_hook: the workspace that
\* load_or_create gave is attached to the hook
InjectWorkspace(w) ==
    /\ ~hitl.workspace
    /\ hitl' = [hitl EXCEPT !.workspace = TRUE, !.has_whitelist = w.has_whitelist,
                            !.tools = w.tools]
    /\ HitlOnly

\* the "tool.requires_approval" event the orchestrator fires for a tool
\* whose definition requires approval
RequiresApproval(tool_name, answer) ==
    /\ hitl' = hitl_execute(hitl, tool_name, TRUE, answer)
    /\ HitlOnly

\* _add_to_whitelist called on the hook directly
AddToWhitelist(tool_name) ==
    /\ hitl' = add_to_whitelist(hitl, tool_name)
    /\ HitlOnly

(* --------------------------- subagent manager --------------------------- *)
SubagentsOnly ==
    UNCHANGED <<tasks, nextId, clock, ret, engineVars, controllerVars, hooks, enabled,
                hitl, modes, caller, budget>>

\* spawn(parent_task, subtask): the subagents are spawned in the order 1, 2, ..
Spawn(i) ==
    /\ handles[i] = NoHandle
    /\ \A j \in 1..(i - 1) : handles[j] # NoHandle
    /\ handles' = [handles EXCEPT ![i] = SubagentHandle]
    /\ UNCHANGED semaphore
    /\ SubagentsOnly

\* _execute_subagent: async with self._semaphore is entered, status = RUNNING
Acquire(i) ==
    /\ handles[i].at = "waiting"
    /\ ~locked(semaphore)
    /\ semaphore' = semaphore - 1
    /\ handles' = [handles EXCEPT ![i].status = SUB_RUNNING, ![i].at = "running"]
    /\ SubagentsOnly

\* the child run returns, hits its wall-clock timeout, or something in the
\* try raises (no factory, initialize, the run itself)
ChildEnds(i, outcome) ==
    /\ handles[i].at = "running"
    /\ handles' = [handles EXCEPT ![i] = child_ended(@, outcome)]
    /\ UNCHANGED semaphore
    /\ SubagentsOnly

\* the rest of _execute_subagent: subagent.shutdown() in the inner finally
\* (when it raises the outer except marks the handle Failed), the handle is
\* removed from _active_subagents, the async with block is left
Leave(i, shutdown_raised) ==
    /\ handles[i].at = "leaving"
    /\ handles' = [handles EXCEPT
                      ![i] = [(IF shutdown_raised THEN execution_failed(@) ELSE @)
                                 EXCEPT !.active = FALSE, !.at = "done"]]
    /\ semaphore' = release(semaphore)
    /\ SubagentsOnly

\* SubagentManager.shutdown(): the tasks running _execute_subagent are not
\* cancelled, only the handles are marked
ManagerShutdown ==
    /\ \E i \in Subagents : handles[i].active
    /\ handles' = [i \in Subagents |-> cancelled_by_shutdown(handles[i])]
    /\ UNCHANGED semaphore
    /\ SubagentsOnly

\* a caller's handle.wait(timeout) returns or raises
HandleWait(i) ==
    /\ handles[i] # NoHandle
    /\ handles' = [handles EXCEPT ![i] = wait(@)]
    /\ handles' # handles
    /\ UNCHANGED semaphore
    /\ SubagentsOnly

(* ------------------------- execution engine ---------------------------- *)
\* an except branch that re-raises and does nothing else
Fail_unmarked(why) ==
    /\ ret' = Ret("_execute_task", "raised", cur)
    /\ caller' = returned_to(caller, tasks, cur, TRUE)
    /\ BecomeIdle
    /\ UNCHANGED <<tasks, nextId, clock, controllerVars, componentVars, budget>>

\* the except branch of _execute_task: mark the task Failed, trigger
\* task.failed and re-raise
Fail(why) ==
    /\ tasks' = IF Exists(tasks, cur)
                THEN update_task(tasks, cur, [status |-> FAILED, error |-> why], clock)
                ELSE tasks
    /\ ret' = [Ret("_execute_task", "raised", cur) EXCEPT
                  !.fired = IF Exists(tasks, cur) THEN <<"task.failed">> ELSE <<>>]
    /\ caller' = returned_to(caller, tasks', cur, TRUE)
    /\ BecomeIdle
    /\ UNCHANGED <<nextId, clock, controllerVars, componentVars, budget>>

\* _handle_interrupt, then the loop returns one of its "[Execution
\* interrupted ...]" strings, all of them the result kind "interrupted"
Interrupt(partial_result, sentinel) ==
    /\ tasks' = _handle_interrupt(tasks, cur, partial_result, clock)
    /\ ic' = reset_sync(ic)
    /\ seen' = NoRequests
    /\ loopResult' = Res(sentinel)
    /\ pc' = "returned"
    /\ UNCHANGED <<nextId, clock, ret, cur, iter, text, toolsLeft, budget, co,
                   callbackVars, componentVars, caller>>

\* _execute_task(task) is entered by its callers with a Pending task whose
\* dependencies are met (run, _execute_all_pending_tasks,
\* _execute_subtasks_recursive, a task just created)
EnterExecuteTask(t) ==
    /\ pc = "idle"
    /\ Exists(tasks, t)
    /\ tasks[t].status = PENDING
    /\ _are_dependencies_met(tasks, t)
    /\ budget.runs > 0
    /\ budget' = [budget EXCEPT !.runs = @ - 1]
    /\ tasks' = update_task(tasks, t, [status |-> IN_PROGRESS], clock)
    /\ cur' = t
    /\ pc' = "round"
    /\ ret' = [Ret("_execute_task", "running", 0) EXCEPT !.fired = <<"task.started">>]
    /\ UNCHANGED <<nextId, clock, iter, text, toolsLeft, loopResult, controllerVars,
                   componentVars>>

\* _execute_task(t) called by any other caller than the two loops
ExecuteTaskStart(t) ==
    /\ caller = NoCaller
    /\ EnterExecuteTask(t)
    /\ UNCHANGED caller

\* run(): initialize(), then the loop
RunStart ==
    /\ pc = "idle"
    /\ caller = NoCaller
    /\ Exists(tasks, 1)
    /\ caller' = [NoCaller EXCEPT !.of = "run", !.state = "loop"]
    /\ UNCHANGED <<tasks, nextId, clock, ret, engineVars, controllerVars, componentVars,
                   budget>>

\* run(): task = get_next_executable_task(); none: break (and shutdown);
\* otherwise await _execute_task(task)
RunLoop ==
    /\ caller.of = "run" /\ caller.state = "loop"
    /\ LET task == get_next_executable_task(tasks)
       IN  IF task = 0
           THEN /\ caller' = [caller EXCEPT !.state = "stopped"]
                /\ UNCHANGED <<tasks, nextId, clock, ret, engineVars, controllerVars,
                               componentVars, budget>>
           ELSE /\ EnterExecuteTask(task)
                /\ caller' = [caller EXCEPT !.state = "in_task"]

\* _execute_subtasks_recursive(parent_id), called right after
\* _execute_task(parent) has returned (_process_execute_mode,
\* _execute_all_pending_tasks)
ExecuteSubtasksRecursive(parent_id) ==
    /\ pc = "idle"
    /\ caller = NoCaller
    /\ ret.op = "_execute_task" /\ ret.err = "none" /\ ret.id = parent_id
    /\ caller' = [of |-> "_execute_subtasks_recursive", state |-> "loop",
                  frames |-> <<Frame(tasks, parent_id)>>]
    /\ UNCHANGED <<tasks, nextId, clock, ret, engineVars, controllerVars, componentVars,
                   budget>>

\* one turn of the for loop of the innermost activation: the list is
\* exhausted and the activation returns, or the subtask is Pending with its
\* dependencies met and is executed, or it is skipped
SubtasksStep ==
    /\ caller.of = "_execute_subtasks_recursive" /\ caller.state = "loop"
    /\ LET n == Len(caller.frames)
           top == caller.frames[n]
       IN  IF top.i > Len(top.ids)
           THEN /\ caller' = [caller EXCEPT
                                 !.frames = SubSeq(@, 1, n - 1),
                                 !.state = IF n = 1 THEN "returned" ELSE "loop"]
                /\ UNCHANGED <<tasks, nextId, clock, ret, engineVars, controllerVars,
                               componentVars, budget>>
           ELSE LET subtask == top.ids[top.i]
                IN  IF /\ tasks[subtask].status = PENDING
                       /\ _are_dependencies_met(tasks, subtask)
                    THEN /\ EnterExecuteTask(subtask)
                         /\ caller' = [caller EXCEPT !.state = "in_task"]
                    ELSE /\ caller' = [caller EXCEPT !.frames[n].i = @ + 1]
                         /\ UNCHANGED <<tasks, nextId, clock, ret, engineVars,
                                        controllerVars, componentVars, budget>>

\* for iteration in range(max_iterations) is exhausted
RaiseMaxIterations ==
    /\ pc = "round"
    /\ iter >= max_iterations
    /\ Fail("exceeded max iterations")

\* INTERRUPT CHECK POINT 1: before each iteration
Checkpoint1 ==
    /\ pc = "round"
    /\ iter < max_iterations
    /\ intRequested
    /\ Interrupt(NoResult, "interrupted")

\* a round that goes on whether an interrupt is requested or not
LlmBeforeCall_unchecked ==
    /\ pc = "round"
    /\ iter < max_iterations
    /\ pc' = "before_call"
    /\ UNCHANGED <<tasks, nextId, clock, ret, cur, iter, text, toolsLeft, loopResult,
                   controllerVars, componentVars, caller, budget>>

\* checkpoint 1 saw no interrupt: the round goes on with _prepare_messages
\* and the llm.before_call hook
LlmBeforeCall ==
    /\ pc = "round"
    /\ iter < max_iterations
    /\ ~intRequested
    /\ pc' = "before_call"
    /\ UNCHANGED <<tasks, nextId, clock, ret, cur, iter, text, toolsLeft, loopResult,
                   controllerVars, componentVars, caller, budget>>

\* the provider is called: chat_stream or chat
ProviderCall ==
    /\ pc = "before_call"
    /\ pc' = "call"
    /\ text' = FALSE
    /\ UNCHANGED <<tasks, nextId, clock, ret, cur, iter, toolsLeft, loopResult,
                   controllerVars, componentVars, caller, budget>>

\* a StreamChunk arrives and no interrupt is pending
StreamChunk ==
    /\ pc = "call"
    /\ ~intRequested
    /\ ~text
    /\ text' = TRUE
    /\ UNCHANGED <<tasks, nextId, clock, ret, pc, cur, iter, toolsLeft, loopResult,
                   controllerVars, componentVars, caller, budget>>

\* INTERRUPT CHECK POINT 2: on a stream item
Checkpoint2 ==
    /\ pc = "call"
    /\ intRequested
    /\ Interrupt(IF text THEN Res("partial") ELSE NoResult, "interrupted")

\* the provider's response is in: the stream's final item (checkpoint 2 saw
\* no interrupt) or the return of the non-streaming call (nothing checked)
Response(stop_reason, streaming, has_text) ==
    /\ pc = "call"
    /\ IF streaming THEN ~intRequested /\ text' = text
                    ELSE ~text /\ text' = has_text
    /\ CASE stop_reason = "end_turn" ->
              /\ loopResult' = IF streaming /\ text' THEN Res("empty") ELSE Res("final")
              /\ pc' = "returned"
              /\ UNCHANGED <<iter, toolsLeft>>
         [] stop_reason = "tool_use" ->
              /\ toolsLeft' \in 1..MaxToolBlocks
              /\ pc' = "tools"
              /\ UNCHANGED <<iter, loopResult>>
         [] OTHER ->
              /\ iter' = iter + 1
              /\ pc' = "round"
              /\ UNCHANGED <<toolsLeft, loopResult>>
    /\ UNCHANGED <<tasks, nextId, clock, ret, cur, controllerVars, componentVars, caller, budget>>

\* the provider call raises
ProviderError ==
    /\ pc = "call"
    /\ Fail("provider error")

\* INTERRUPT CHECK POINT 3: before each tool execution
Checkpoint3 ==
    /\ pc = "tools"
    /\ intRequested
    /\ Interrupt(IF text THEN Res("partial") ELSE NoResult, "interrupted")

\* checkpoint 3 saw no interrupt: the display is updated and the tool_use
\* block goes to _execute_tool
ToolDispatch ==
    /\ pc = "tools"
    /\ ~intRequested
    /\ pc' = "dispatch"
    /\ UNCHANGED <<tasks, nextId, clock, ret, cur, iter, text, toolsLeft, loopResult,
                   controllerVars, componentVars, caller, budget>>

\* ToolResult(success, error), and the tool_result turn made of it
ToolResult(success, error) == [success |-> success, error |-> error]
ToolFailed(error) == ToolResult(FALSE, error)

\* _execute_tool(tool_name, tool_args) on a call described by: the registry
\* knows the tool; what the tool.before_execute hooks return; the tool
\* requires approval; what the tool.requires_approval hooks return; and what
\* tool.execute does (returns success, returns failure, raises).  Nothing in
\* _execute_tool catches what tool.execute raises.
ToolCalls ==
    [known : BOOLEAN, before : {"continue", "block"}, requires_approval : BOOLEAN,
     approval : {"continue", "block"}, execute : {"success", "failure", "raises"}]
_execute_tool(call) ==
    CASE ~call.known ->
             [raised |-> FALSE, result |-> ToolFailed("Tool not found")]
      [] call.known /\ call.before = "block" ->
             [raised |-> FALSE, result |-> ToolFailed("blocked by hook")]
      [] call.known /\ call.before # "block"
           /\ call.requires_approval /\ call.approval = "block" ->
             [raised |-> FALSE, result |-> ToolFailed("denied by user")]
      [] OTHER ->
             CASE call.execute = "success" ->
                      [raised |-> FALSE, result |-> ToolResult(TRUE, "none")]
               [] call.execute = "failure" ->
                      [raised |-> FALSE, result |-> ToolFailed("tool failed")]
               [] OTHER ->
                      [raised |-> TRUE, result |-> ToolFailed("tool raised")]

\* _execute_tool has run the tool_use block and its result is appended to
\* tool_results; after the last one the round ends
Dispatched(ts, err) ==
    /\ pc = "dispatch"
    /\ tasks' = ts
    /\ ret' = [ret EXCEPT !.out = Append(@, ToolResult(err = "none", err))]
    /\ toolsLeft' = toolsLeft - 1
    /\ IF toolsLeft = 1 THEN pc' = "round" /\ iter' = iter + 1
                        ELSE pc' = "tools" /\ iter' = iter
    /\ UNCHANGED <<clock, cur, text, loopResult, controllerVars, componentVars, caller>>

\* a tool that does not touch the task graph
ToolOther == Dispatched(tasks, "none") /\ UNCHANGED <<nextId, budget>>

\* any tool, whatever becomes of the call
ExecuteTool(call) ==
    LET r == _execute_tool(call)
    IN  IF r.raised
        THEN pc = "dispatch" /\ Fail(r.result.error)
        ELSE Dispatched(tasks, r.result.error) /\ UNCHANGED <<nextId, budget>>

\* _execute_tool(tool_name, tool_args) with the gates answered by the hook
\* engine: tool.before_execute is triggered, then tool.requires_approval if
\* the tool's definition asks for it, then the tool is executed
ExecuteToolGated(known, requires_approval, does) ==
    /\ LET before == _trigger_hook(enabled, hooks, BeforeExecute)
           asked == known /\ before.result.action # "block" /\ requires_approval
           approval == _trigger_hook(enabled, hooks, RequiresApprovalEvent)
           call == [known |-> known, before |-> before.result.action,
                    requires_approval |-> requires_approval,
                    approval |-> IF asked THEN approval.result.action ELSE "continue",
                    execute |-> does]
           r == _execute_tool(call)
           executed == /\ known /\ before.result.action # "block"
                       /\ asked => approval.result.action # "block"
       IN  ret' = [Ret("_execute_tool", IF r.raised THEN "raised" ELSE "none", 0) EXCEPT
                      !.out = <<call,
                                IF known
                                THEN [action |-> before.result.action,
                                      visited |-> before.visited]
                                ELSE NotTriggered,
                                IF asked
                                THEN [action |-> approval.result.action,
                                      visited |-> approval.visited]
                                ELSE NotTriggered,
                                executed, r.result>>]
    /\ UNCHANGED hooks
    /\ HooksOnly

\* task_decompose: create_subtask under the current task
ToolCreateSubtask(prio) ==
    LET r == create_subtask(tasks, cur, nextId, prio)
    IN  /\ CanCreate(r)
        /\ Dispatched(r.tasks, r.err)
        /\ Created(r)

\* task_decompose: add_dependency
ToolAddDependency(a, b) ==
    LET r == add_dependency(tasks, a, b)
    IN  Dispatched(r.tasks, r.err) /\ UNCHANGED <<nextId, budget>>

\* task_decompose: remove_dependency
ToolRemoveDependency(a, b) ==
    LET r == remove_dependency(tasks, a, b)
    IN  Dispatched(r.tasks, r.err) /\ UNCHANGED <<nextId, budget>>

\* the loop returned: update_task(Completed, result), then the propagation
ExecuteTaskComplete ==
    /\ pc = "returned"
    /\ Exists(tasks, cur)
    /\ tasks' = _handle_task_completion(
                    update_task(tasks, cur,
                                [status |-> COMPLETED, result |-> loopResult], clock),
                    cur, clock)
    /\ ret' = [Ret("_execute_task", "none", cur) EXCEPT
                  !.out = <<loopResult.kind>>, !.fired = <<"task.completed">>]
    /\ caller' = returned_to(caller, tasks', cur, FALSE)
    /\ BecomeIdle
    /\ UNCHANGED <<nextId, clock, controllerVars, componentVars, budget>>

(* --------------------------- specifications ---------------------------- *)
\* the scheduler's graph operations and the caller's own status updates
Scheduler(statuses) ==
    \/ \E p \in CreatePriorities : CreateTask(p)
    \/ \E t \in Ids, p \in CreatePriorities : CreateSubtask(t, p)
    \/ \E a, b \in Ids : AddDependency(a, b)
    \/ \E a, b \in Ids : RemoveDependency(a, b)
    \/ \E t \in Ids, s \in statuses : UpdateTask(t, s)

Engine ==
    \/ RequestInterrupt
    \/ \E t \in Ids : ExecuteTaskStart(t)
    \/ RaiseMaxIterations
    \/ Checkpoint1
    \/ LlmBeforeCall
    \/ ProviderCall
    \/ StreamChunk
    \/ Checkpoint2
    \/ \E sr \in {"end_turn", "tool_use", "max_tokens", "other"}, st, ht \in BOOLEAN :
          Response(sr, st, ht)
    \/ ProviderError
    \/ Checkpoint3
    \/ ToolDispatch
    \/ ToolOther
    \/ \E p \in CreatePriorities : ToolCreateSubtask(p)
    \/ \E a, b \in Ids : ToolAddDependency(a, b)
    \/ \E a, b \in Ids : ToolRemoveDependency(a, b)
    \/ ExecuteTaskComplete

\* the scheduler alone, driven by its caller
NextSched ==
    \/ Scheduler({PENDING, IN_PROGRESS, COMPLETED})
    \/ \E t \in Ids : DeleteTask(t)
    \/ GetNextExecutableTask
SpecSched ==
    Start([tasks |-> MaxTasks, api |-> MaxApiCalls, intr |-> 0, runs |-> 0])
    /\ [][NextSched]_vars

\* the engine on a task graph its caller builds; the caller's own updates
\* mark tasks InProgress
Next ==
    \/ Scheduler({IN_PROGRESS})
    \/ Engine
Spec ==
    Start([tasks |-> MaxTasks, api |-> MaxUpdates, intr |-> MaxInterrupts,
           runs |-> MaxRuns])
    /\ [][Next]_vars

\* the engine on a task tree: the caller creates tasks and subtasks and marks
\* tasks InProgress, the dependencies are those the running task declares
NextTree ==
    \/ \E p \in CreatePriorities : CreateTask(p)
    \/ \E t \in Ids, p \in CreatePriorities : CreateSubtask(t, p)
    \/ \E t \in Ids : UpdateTask(t, IN_PROGRESS)
    \/ Engine
SpecTree ==
    Start([tasks |-> MaxTasks, api |-> TreeUpdates, intr |-> MaxInterrupts,
           runs |-> TreeRuns])
    /\ [][NextTree]_vars

\* the engine and its caller while time passes
NextTimed ==
    \/ Scheduler(TaskStatus)
    \/ Engine
    \/ Tick
SpecTimed ==
    Start([tasks |-> TimedTasks, api |-> TimedApiCalls, intr |-> MaxInterrupts,
           runs |-> TimedRuns])
    /\ [][NextTimed]_vars

\* the orderings of a set of ids
Orderings(S) ==
    {q \in [1..Cardinality(S) -> S] : \A i, j \in 1..Cardinality(S) : q[i] = q[j] => i = j}
\* the task store whose dependency edges are E, depends_on and blocks the
\* inverse of each other: what create_task stores for Task objects built with
\* these fields
Graph(n, E) ==
    [id \in 1..n |->
        [Task(0, "medium") EXCEPT
            !.depends_on = Sorted({d \in 1..n : <<id, d>> \in E}),
            !.blocks = Sorted({b \in 1..n : <<b, id>> \in E})]]
\* get_execution_order on every such store of up to MaxTasks tasks
InitOrder ==
    /\ \E n \in 1..MaxTasks : \E E \in SUBSET ((1..n) \X (1..n)) : tasks = Graph(n, E)
    /\ nextId = MaxTasks + 1
    /\ clock = 1
    /\ ret = Returned
    /\ Idle
    /\ ic = InterruptController
    /\ co = NoCall
    /\ seen = NoRequests
    /\ callbacks = <<>>
    /\ notified = <<>>
    /\ hooks = NoHooks
    /\ enabled = TRUE
    /\ handles = NoHandles
    /\ semaphore = max_concurrent
    /\ hitl = HITLHook
    /\ modes = ModeManager
    /\ caller = NoCaller
    /\ budget = [tasks |-> 0, api |-> 0, intr |-> 0, runs |-> 0]
NextOrder == \E q \in Orderings(DOMAIN tasks) : GetExecutionOrder(q)
SpecOrder == InitOrder /\ [][NextOrder]_vars
\* get_execution_order on the ids of some of the tasks of such a store
NextPartialOrder ==
    \E S \in SUBSET (DOMAIN tasks) : \E q \in Orderings(S) : GetExecutionOrder(q)
SpecPartialOrder == InitOrder /\ [][NextPartialOrder]_vars

\* the interrupt controller under its two kinds of callers: the cooperative
\* calls of the event loop and the blocking calls of the signal handler
NextInterrupt ==
    \/ \E t \in {SOFT, HARD} : RequestInterruptSync(t)
    \/ ResetSync
    \/ \E t \in {SOFT, HARD} : RequestInterruptEnter(t)
    \/ RequestInterruptCount
    \/ RequestInterruptCountLoad
    \/ RequestInterruptCountStore
    \/ RequestInterruptEscalate
    \/ RequestInterruptState
    \/ RequestInterruptEvent
    \/ RequestInterruptReturn
    \/ ResetEnter
    \/ ResetState
    \/ ResetEvent
    \/ ResetCount
SpecInterrupt ==
    Start([tasks |-> 0, api |-> 0, intr |-> 0, runs |-> 0])
    /\ [][NextInterrupt]_vars

\* the controller with callbacks: they are registered and unregistered
\* between the calls, requests come in on both paths, resets between them
NextCallbacks ==
    \/ \E c, r \in BOOLEAN : RegisterCallback(c, r)
    \/ \E i \in 1..MaxCallbacks : UnregisterCallback(i)
    \/ \E t \in {SOFT, HARD} : RequestInterruptSync(t)
    \/ \E t \in {SOFT, HARD} : RequestInterruptEnter(t)
    \/ RequestInterruptCount
    \/ RequestInterruptEscalate
    \/ RequestInterruptState
    \/ RequestInterruptEvent
    \/ RequestInterruptNotify
    \/ RequestInterruptReturn
    \/ co = NoCall /\ ResetSync
SpecCallbacks ==
    Start([tasks |-> 0, api |-> 0, intr |-> 0, runs |-> 0])
    /\ [][NextCallbacks]_vars

\* the hook engine: hooks are registered, events are triggered
NextHooks ==
    \/ \E e \in HookEvents, p \in HookPriorities, d \in HookBehaviours : Register(e, p, d)
    \/ \E e \in HookEvents \ {"*"} : Trigger(e)
SpecHooks ==
    Start([tasks |-> 0, api |-> 0, intr |-> 0, runs |-> 0])
    /\ [][NextHooks]_vars
\* tools behind the two gates, on an engine that is enabled or not
NextGate ==
    \/ \E e \in BOOLEAN : HookEngineInit(e)
    \/ \E e \in HookEvents, d \in GateBehaviours : Register(e, HitlPriority, d)
    \/ \E k, a \in BOOLEAN, d \in {"success", "failure", "raises"} :
          ExecuteToolGated(k, a, d)
SpecGate ==
    StartEngine([tasks |-> 0, api |-> 0, intr |-> 0, runs |-> 0], FALSE)
    /\ [][NextGate]_vars
\* hooks that patch the data and the metadata of the context
NextPatch ==
    \/ \E e \in HookEvents, p \in HookPriorities, d \in PatchBehaviours : Register(e, p, d)
    \/ \E e \in HookEvents \ {"*"} : Trigger(e)
SpecPatch ==
    Start([tasks |-> 0, api |-> 0, intr |-> 0, runs |-> 0])
    /\ [][NextPatch]_vars

\* the subagent manager, its spawned tasks and the callers of the handles
NextSubagents ==
    \/ \E i \in Subagents : Spawn(i)
    \/ \E i \in Subagents : Acquire(i)
    \/ \E i \in Subagents, o \in {"returned", "timeout", "raised"} : ChildEnds(i, o)
    \/ \E i \in Subagents, r \in BOOLEAN : Leave(i, r)
    \/ ManagerShutdown
    \/ \E i \in Subagents : HandleWait(i)
SpecSubagents ==
    Start([tasks |-> 0, api |-> 0, intr |-> 0, runs |-> 0])
    /\ [][NextSubagents]_vars
\* the event loop runs every task that can run, and every child run returns,
\* raises or hits its timeout
SpecSubagentsFair ==
    /\ SpecSubagents
    /\ \A i \in Subagents :
           /\ WF_vars(Acquire(i))
           /\ WF_vars(\E o \in {"returned", "timeout", "raised"} : ChildEnds(i, o))
           /\ WF_vars(\E r \in BOOLEAN : Leave(i, r))

\* the two loops around _execute_task: the caller builds a task tree with
\* dependencies, then run() is called, or a task is executed and then
\* _execute_subtasks_recursive on it; nobody interrupts
NextRun ==
    \/ caller = NoCaller /\ \E p \in CreatePriorities : CreateTask(p)
    \/ caller = NoCaller /\ \E t \in Ids, p \in CreatePriorities : CreateSubtask(t, p)
    \/ caller = NoCaller /\ \E a, b \in Ids : AddDependency(a, b)
    \/ \E t \in Ids : ExecuteTaskStart(t)
    \/ RunStart
    \/ RunLoop
    \/ \E t \in Ids : ExecuteSubtasksRecursive(t)
    \/ SubtasksStep
    \/ RaiseMaxIterations
    \/ LlmBeforeCall
    \/ ProviderCall
    \/ \E sr \in {"end_turn", "max_tokens"} : Response(sr, FALSE, FALSE)
    \/ ProviderError
    \/ ExecuteTaskComplete
SpecRun ==
    Start([tasks |-> MaxTasks, api |-> 0, intr |-> 0, runs |-> RunRuns])
    /\ [][NextRun]_vars

\* the reasoning loop and its tool calls on tasks nobody interrupts
NextTools ==
    \/ \E p \in CreatePriorities : CreateTask(p)
    \/ \E t \in Ids : ExecuteTaskStart(t)
    \/ RaiseMaxIterations
    \/ LlmBeforeCall
    \/ ProviderCall
    \/ \E sr \in {"end_turn", "tool_use", "max_tokens"} : Response(sr, FALSE, FALSE)
    \/ ProviderError
    \/ ToolDispatch
    \/ \E call \in ToolCalls : ExecuteTool(call)
    \/ ExecuteTaskComplete
SpecTools ==
    Start([tasks |-> MaxTasks, api |-> 0, intr |-> 0, runs |-> RunRuns])
    /\ [][NextTools]_vars

\* tasks of every priority, some of them with dependencies or moved out of
\* Pending, and the scheduler is asked for the next one
NextPriority ==
    \/ \E p \in TaskPriority : CreateTask(p)
    \/ \E a, b \in Ids : AddDependency(a, b)
    \/ \E t \in Ids, st \in {IN_PROGRESS, COMPLETED} : UpdateTask(t, st)
    \/ GetNextExecutableTask
SpecPriority ==
    Start([tasks |-> MaxTasks, api |-> PriorityUpdates, intr |-> 0, runs |-> 0])
    /\ [][NextPriority]_vars

\* the mode is switched and lists of schemas are filtered
NextModes ==
    \/ \E mode \in ExecutionMode : SetMode(mode)
    \/ \E all_schemas \in SchemaLists : FilterToolSchemas(all_schemas)
SpecModes ==
    Start([tasks |-> 0, api |-> 0, intr |-> 0, runs |-> 0])
    /\ [][NextModes]_vars

\* approval events for the tools, answered every way, on a hook with or
\* without a workspace
NextHitl ==
    \/ \E w \in LoadedWhitelists : InjectWorkspace(w)
    \/ \E t \in ApprovalTools, a \in Answers : RequiresApproval(t, a)
    \/ \E t \in ApprovalTools : AddToWhitelist(t)
SpecHitl ==
    Start([tasks |-> 0, api |-> 0, intr |-> 0, runs |-> 0])
    /\ [][NextHitl]_vars

\* a hierarchy is built: tasks and subtasks are created, and the caller moves
\* tasks out of Pending
NextHierarchy ==
    \/ \E p \in CreatePriorities : CreateTask(p)
    \/ \E t \in Ids, p \in CreatePriorities : CreateSubtask(t, p)
    \/ \E t \in Ids, st \in {IN_PROGRESS, COMPLETED} : UpdateTask(t, st)
SpecHierarchy ==
    Start([tasks |-> HierarchyTasks, api |-> HierarchyUpdates, intr |-> 0, runs |-> 0])
    /\ [][NextHierarchy]_vars

\* the reasoning loop under interrupt requests that arrive at any moment,
\* on tasks without dependencies
NextLoop ==
    \/ \E p \in CreatePriorities : CreateTask(p)
    \/ Engine
SpecLoop ==
    Start([tasks |-> LoopTasks, api |-> 0, intr |-> LoopInterrupts, runs |-> LoopRuns])
    /\ [][NextLoop]_vars

(* ------------------------------ properties ----------------------------- *)
\* a depends on b directly
DependsOn(ts, a, b) == Exists(ts, a) /\ Contains(ts[a].depends_on, b)
\* what the tasks of S depend on, directly or through a chain
RECURSIVE DependsOnClosure(_, _)
DependsOnClosure(ts, S) ==
    LET N == S \cup {d \in Ids : \E a \in S : DependsOn(ts, a, d)}
    IN  IF N = S THEN S ELSE DependsOnClosure(ts, N)
DependsOnChain(ts, a) == DependsOnClosure(ts, {d \in Ids : DependsOn(ts, a, d)})
Acyclic(ts) == \A a \in DOMAIN ts : a \notin DependsOnChain(ts, a)
\* every id of the list names a task that is Completed
AllCompleted(ts, ids) ==
    \A i \in 1..Len(ids) : Exists(ts, ids[i]) /\ ts[ids[i]].status = COMPLETED

\* C1 (as stated): depends_on and blocks are exact inverses, and every id in
\* a depends_on or blocks list names a task of the collection
C1_InverseAndExisting ==
    \A a \in DOMAIN tasks :
        /\ \A b \in Range(tasks[a].depends_on) :
              b \in DOMAIN tasks /\ Contains(tasks[b].blocks, a)
        /\ \A b \in Range(tasks[a].blocks) :
              b \in DOMAIN tasks /\ Contains(tasks[b].depends_on, a)

\* C2: no chain of depends_on edges leads from a task back to itself
C2_Acyclic == Acyclic(tasks)
\* an add_dependency that would have closed a chain of three tasks was refused
C2_Witness ==
    /\ ret.op = "add_dependency" /\ ret.err = "CycleDetected"
    /\ \E a, b, c \in DOMAIN tasks :
          /\ a # b /\ b # c /\ a # c
          /\ DependsOn(tasks, a, b) /\ DependsOn(tasks, b, c)

\* C3: an add_dependency that fails leaves every task as it was, and
\* add_dependency(B, A) while A depends on B fails with the cycle error
C3_FailingAddDependency ==
    [][\A a, b \in Ids :
          AddDependency(a, b) =>
              /\ ret'.err # "none" => tasks' = tasks
              /\ DependsOn(tasks, b, a) /\ Exists(tasks, a) /\ a # b
                    => ret'.err = "CycleDetected"
              /\ a = b /\ Exists(tasks, a) => ret'.err = "SelfDependency"
              /\ ~Exists(tasks, a) \/ ~Exists(tasks, b)
                    => ret'.err \in {"TaskNotFound", "DependencyNotFound"}]_vars
\* the second call of the pair was refused while the first edge is in place
C3_Witness ==
    /\ ret.op = "add_dependency" /\ ret.err = "CycleDetected"
    /\ \E a, b \in DOMAIN tasks :
          /\ tasks[a].depends_on = <<b>> /\ tasks[b].blocks = <<a>>
          /\ tasks[b].depends_on = <<>> /\ tasks[a].status = BLOCKED

\* _execute_task returned for a run that an interrupt checkpoint ended
InterruptedRunReturned ==
    /\ ret.op = "_execute_task" /\ ret.err = "none"
    /\ ret.out = <<"interrupted">>

\* C4 (as stated): once _execute_task has returned for an interrupted task,
\* the task is Pending with error "Interrupted by user"
C4_InterruptedEndsPending ==
    InterruptedRunReturned =>
        /\ tasks[ret.id].status = PENDING
        /\ tasks[ret.id].error = InterruptedByUser

\* C5: the task get_next_executable_task returns is Pending, every id in its
\* depends_on and in its subtasks names a Completed task, and its parent, if
\* it exists, is InProgress or Completed
C5_NextIsExecutable ==
    ret.op = "get_next_executable_task" /\ ret.id # 0 =>
        /\ Exists(tasks, ret.id)
        /\ tasks[ret.id].status = PENDING
        /\ AllCompleted(tasks, tasks[ret.id].depends_on)
        /\ AllCompleted(tasks, tasks[ret.id].subtasks)
        /\ Exists(tasks, tasks[ret.id].parent_id) =>
              tasks[tasks[ret.id].parent_id].status \in {IN_PROGRESS, COMPLETED}
\* a task with a dependency and a subtask, both Completed, was returned
C5_Witness ==
    /\ ret.op = "get_next_executable_task" /\ ret.id # 0
    /\ tasks[ret.id].depends_on # <<>>
    /\ tasks[ret.id].subtasks # <<>>

\* two Pending tasks with no edges
FreePair(a, b) ==
    /\ a # b /\ Exists(tasks, a) /\ Exists(tasks, b)
    /\ \A t \in {a, b} :
          /\ tasks[t].status = PENDING
          /\ tasks[t].depends_on = <<>> /\ tasks[t].blocks = <<>>
          /\ tasks[t].subtasks = <<>> /\ tasks[t].parent_id = 0
\* no task of ts but those of S is Pending
OnlyPending(ts, S) == \A t \in DOMAIN ts \ S : ts[t].status # PENDING
\* a depends on b and neither has another edge
OnlyEdge(ts, a, b) ==
    /\ Exists(ts, a) /\ Exists(ts, b)
    /\ ts[a].depends_on = <<b>> /\ ts[a].blocks = <<>>
    /\ ts[b].depends_on = <<>> /\ ts[b].blocks = <<a>>
    /\ \A t \in {a, b} : ts[t].subtasks = <<>> /\ ts[t].parent_id = 0
\* the engine completes b while a, Blocked, waits for it
CompletesOnlyDependency(a, b) ==
    /\ ExecuteTaskComplete /\ cur = b
    /\ OnlyEdge(tasks, a, b) /\ tasks[a].status = BLOCKED
\* a task with a dependency that is not Completed is not the one returned
\* (no task has a dependency in the initial state, so the properties ask it
\* of the state every step leads to)
NotBeforeDependency ==
    \A a \in DOMAIN tasks :
        ~AllCompleted(tasks, tasks[a].depends_on) => get_next_executable_task(tasks) # a

\* C6 (as stated): for any two Pending tasks A and B with no edges,
\* add_dependency(A, B) leaves A Blocked and B the next executable task; the
\* engine completing B leaves A Pending and the next executable task; A is
\* never returned before B is Completed
C6_AnyPair ==
    [][/\ NotBeforeDependency'
       /\ \A a, b \in Ids :
            /\ FreePair(a, b) /\ AddDependency(a, b) =>
                  /\ tasks'[a].status = BLOCKED
                  /\ get_next_executable_task(tasks') = b
            /\ CompletesOnlyDependency(a, b) =>
                  /\ tasks'[a].status = PENDING
                  /\ get_next_executable_task(tasks') = a]_vars

\* C6 (amended): the same while no other task is Pending
C6_OnlyPendingPair ==
    [][/\ NotBeforeDependency'
       /\ \A a, b \in Ids :
            /\ FreePair(a, b) /\ AddDependency(a, b) =>
                  /\ tasks'[a].status = BLOCKED
                  /\ OnlyPending(tasks', {a, b}) => get_next_executable_task(tasks') = b
            /\ CompletesOnlyDependency(a, b) =>
                  /\ tasks'[a].status = PENDING
                  /\ OnlyPending(tasks', {a}) => get_next_executable_task(tasks') = a]_vars
\* the engine has completed B, and A, which waited for B alone, is Pending
\* and the next executable task
C6_Witness ==
    /\ ret.op = "_execute_task" /\ ret.err = "none"
    /\ \E a \in DOMAIN tasks :
          /\ OnlyEdge(tasks, a, ret.id)
          /\ tasks[a].status = PENDING
          /\ OnlyPending(tasks, {a})
          /\ get_next_executable_task(tasks) = a

\* the tasks above t in the hierarchy
RECURSIVE Ancestors(_, _)
Ancestors(ts, t) ==
    IF ~Exists(ts, t) \/ ~Exists(ts, ts[t].parent_id) THEN {}
    ELSE {ts[t].parent_id} \cup Ancestors(ts, ts[t].parent_id)
\* d is a dependent of the task the engine is completing
Dependent(d) == Exists(tasks, d) /\ Contains(tasks[cur].blocks, d)
\* with the running task Completed, every dependency of d is
DependenciesNowCompleted(d) ==
    \A x \in Range(tasks[d].depends_on) :
        x = cur \/ (Exists(tasks, x) /\ tasks[x].status = COMPLETED)

\* C7 (as stated): when the engine completes T, a dependent of T that is
\* Blocked and whose dependencies are now all Completed becomes Pending, and
\* every other dependent of T keeps its status
C7_Unblock ==
    [][ExecuteTaskComplete =>
          \A d \in Ids : Dependent(d) =>
              IF tasks[d].status = BLOCKED /\ DependenciesNowCompleted(d)
              THEN tasks'[d].status = PENDING
              ELSE tasks'[d].status = tasks[d].status]_vars

\* C7 (amended): the same, but a dependent that is an InProgress ancestor of
\* T may be set to Completed by the parent check of the same completion
C7_UnblockButAncestors ==
    [][ExecuteTaskComplete =>
          \A d \in Ids : Dependent(d) =>
              IF tasks[d].status = BLOCKED /\ DependenciesNowCompleted(d)
              THEN tasks'[d].status = PENDING
              ELSE \/ tasks'[d].status = tasks[d].status
                   \/ /\ d \in Ancestors(tasks, cur)
                      /\ tasks[d].status = IN_PROGRESS
                      /\ tasks'[d].status = COMPLETED]_vars
\* the engine has completed a task with two dependents: the one that waited
\* for it alone is Pending, the one that also waits for the other is Blocked
C7_Witness ==
    /\ ret.op = "_execute_task" /\ ret.err = "none"
    /\ \E d, e \in DOMAIN tasks :
          /\ tasks[d].depends_on = <<ret.id>> /\ tasks[d].status = PENDING
          /\ Contains(tasks[e].depends_on, ret.id) /\ Contains(tasks[e].depends_on, d)
          /\ tasks[e].status = BLOCKED

\* the ancestors the parent check completes, from p upwards, in the store ts
\* in which the completed subtask is Completed
RECURSIVE AutoCompleted(_, _)
AutoCompleted(ts, p) ==
    IF ~Exists(ts, p) THEN {}
    ELSE IF ts[p].status = IN_PROGRESS /\ AllCompleted(ts, ts[p].subtasks)
    THEN {p} \cup AutoCompleted([ts EXCEPT ![p].status = COMPLETED], ts[p].parent_id)
    ELSE {}
\* those of the task the engine is completing
AutoCompletedNow ==
    AutoCompleted([tasks EXCEPT ![cur].status = COMPLETED], tasks[cur].parent_id)
\* the parent check has completed p
ParentCompleted(p) ==
    /\ tasks'[p].status = COMPLETED
    /\ tasks'[p].result = AutoResult(Len(tasks[p].subtasks))

\* C8 (as stated): when the engine completes the last non-Completed subtask
\* of an InProgress parent, the parent is Completed with the result that
\* counts its subtasks, and so on up the chain; an ancestor that is not
\* InProgress or has a non-Completed subtask is left unchanged
C8_ParentCompletion ==
    [][ExecuteTaskComplete =>
          /\ \A p \in AutoCompletedNow : ParentCompleted(p)
          /\ \A p \in Ancestors(tasks, cur) \ AutoCompletedNow :
                tasks'[p] = tasks[p]]_vars

\* C8 (amended): the same, but an ancestor that is a Blocked dependent of the
\* completed task is set to Pending by the unblocking of the same completion
C8_ParentCompletionButDependents ==
    [][ExecuteTaskComplete =>
          /\ \A p \in AutoCompletedNow : ParentCompleted(p)
          /\ \A p \in Ancestors(tasks, cur) \ AutoCompletedNow :
                \/ tasks'[p] = tasks[p]
                \/ /\ Dependent(p) /\ tasks[p].status = BLOCKED
                   /\ tasks'[p] = [tasks[p] EXCEPT !.status = PENDING]]_vars
\* the engine has completed a task, and then its parent and the parent of
\* its parent were completed automatically
C8_Witness ==
    /\ ret.op = "_execute_task" /\ ret.err = "none"
    /\ \E p, g \in DOMAIN tasks :
          /\ tasks[ret.id].parent_id = p /\ tasks[p].parent_id = g
          /\ tasks[p].status = COMPLETED /\ tasks[p].result = AutoResult(1)
          /\ tasks[g].status = COMPLETED /\ tasks[g].result = AutoResult(1)

\* C9: on a graph without a cycle get_execution_order returns every task
\* once, each after all the tasks it depends on; on a graph with a cycle it
\* raises the cycle error
C9_ExecutionOrder ==
    ret.op = "get_execution_order" =>
        IF Acyclic(tasks)
        THEN /\ ret.err = "none"
             /\ Len(ret.out) = Cardinality(DOMAIN tasks)
             /\ Range(ret.out) = DOMAIN tasks
             /\ \A i, j \in 1..Len(ret.out) :
                   DependsOn(tasks, ret.out[i], ret.out[j]) => j < i
        ELSE ret.err = "CycleDetected"
\* three tasks were ordered, not in the order they were given in, one of
\* them after its two dependencies
C9_Witness ==
    /\ ret.op = "get_execution_order" /\ ret.err = "none"
    /\ Len(ret.out) = 3 /\ ret.out # ret.ids
    /\ \E t \in DOMAIN tasks : Len(tasks[t].depends_on) = 2

\* C10: a Completed task has completed_at set; completed_at is set by the
\* step that first makes the task Completed, to the time of that step, and
\* never changes afterwards
C10_CompletedAtOnce ==
    [][\A t \in DOMAIN tasks' :
          /\ tasks'[t].status = COMPLETED => tasks'[t].completed_at # 0
          /\ t \in DOMAIN tasks =>
                /\ tasks[t].completed_at # 0 =>
                      tasks'[t].completed_at = tasks[t].completed_at
                /\ tasks[t].completed_at = 0 /\ tasks'[t].completed_at # 0 =>
                      /\ tasks'[t].status = COMPLETED
                      /\ tasks'[t].completed_at = clock]_vars
\* a task completed at time 1 was run again later, interrupted, and is
\* Completed again with the completed_at of the first time
C10_Witness ==
    /\ InterruptedRunReturned
    /\ clock = 2
    /\ tasks[ret.id].status = COMPLETED
    /\ tasks[ret.id].completed_at = 1

\* C11 (as stated): a task whose status is terminal has exactly one of
\* result and error populated: a result and no error when Completed, an
\* error and no result when Failed or Cancelled
C11_ResultXorError ==
    \A t \in DOMAIN tasks :
        /\ tasks[t].status = COMPLETED =>
              tasks[t].result # NoResult /\ tasks[t].error = NoError
        /\ tasks[t].status \in {FAILED, CANCELLED} =>
              tasks[t].result = NoResult /\ tasks[t].error # NoError


\* the controller is between two cooperative calls
Quiescent == co = NoCall
\* the type in effect after the requests of sn
EffectiveType(sn) ==
    IF sn.n = 0 THEN NONE
    ELSE IF sn.n > soft_interrupt_limit THEN HARD ELSE sn.interrupt_type

\* C12 (as stated): after n >= 1 requests since the last reset, made through
\* the cooperative or the blocking path, interrupt_count is n and the type in
\* effect is the requested type while n is within the soft limit and Hard
\* beyond it; after a reset the count is 0, the type None and no interrupt
\* is requested
C12_CountAndEscalation ==
    Quiescent =>
        /\ ic._interrupt_count = seen.n
        /\ ic._state.interrupt_type = EffectiveType(seen)
        /\ ic._state.requested <=> seen.n >= 1

\* C20 (as stated): the blocking and the cooperative path act atomically on
\* the one controller: once the calls have returned no request made since the
\* last reset is lost, and an interrupt is requested exactly if the event is
\* set, exactly if the count is at least 1
C20_PathsAtomic ==
    Quiescent =>
        /\ ic._interrupt_count >= seen.n
        /\ ic._state.requested <=> ic._interrupt_event
        /\ ic._interrupt_event <=> ic._interrupt_count >= 1

\* the last call was trigger; its event, its chain of hooks and its result
Triggered == ret.op = "trigger"
TriggerChain == all_hooks(hooks, ret.out[1])
TriggerResult == ret.out[2]
\* should_run of the hook was called in that trigger call
Visited(h) == Contains(ret.ids, h.id)
\* the hook ran and returned Block
Blocks(h) == h.does \in {"block", "block_no_reason"}
ReturnedBlock(h) == Visited(h) /\ Blocks(h)
\* no hook of the chain with a larger priority number than h ran
NoneAfter(h) ==
    \A j \in 1..Len(TriggerChain) :
        TriggerChain[j].priority > h.priority => ~Visited(TriggerChain[j])

\* C13 (as stated): when a hook registered at priority p returns Block on
\* event E, no hook for E or for the wildcard with a larger priority number
\* runs in that trigger call, and trigger returns Block with the blocking
\* hook's reason
C13_BlockStopsChain ==
    Triggered =>
        \A i \in 1..Len(TriggerChain) :
            LET h == TriggerChain[i]
            IN  ReturnedBlock(h) =>
                    /\ NoneAfter(h)
                    /\ TriggerResult.action = "block"
                    /\ TriggerResult.reason = execute(h).reason

\* C13 (amended): the same, the reason being the blocking hook's reason when
\* it gives one and "Blocked by hook" when it gives none
C13_BlockStopsChainDefaultReason ==
    Triggered =>
        \A i \in 1..Len(TriggerChain) :
            LET h == TriggerChain[i]
            IN  ReturnedBlock(h) =>
                    /\ NoneAfter(h)
                    /\ TriggerResult.action = "block"
                    /\ TriggerResult.reason =
                           IF h.does = "block" THEN ReasonOf(h.id) ELSE BlockedByHook

\* a priority-10 hook returned Block with its reason while a priority-50 hook
\* for the event and one for the wildcard were registered
C13_Witness ==
    /\ Triggered
    /\ \E i, j, k \in 1..Len(TriggerChain) :
           /\ TriggerChain[i].priority = 10 /\ TriggerChain[i].does = "block"
           /\ Visited(TriggerChain[i])
           /\ TriggerChain[j].priority = 50 /\ TriggerChain[j] \in Range(hooks["*"])
           /\ TriggerChain[k].priority = 50 /\ TriggerChain[k] \in Range(hooks[ret.out[1]])
           /\ TriggerResult = HookResult("block", ReasonOf(TriggerChain[i].id))

\* the hook raised in should_run or in execute
Raises(h) == h.does \in {"raise_in_should_run", "raise_in_execute"}

\* C14 (as stated): a hook whose should_run or execute raises is treated as
\* Continue: trigger does not raise, every later hook of the chain still runs
\* (up to a hook that returns Block), and with no Block the result is Continue
C14_RaisingHookContinues ==
    Triggered =>
        /\ ret.err = "none"
        /\ \A i \in 1..Len(TriggerChain) :
               Raises(TriggerChain[i]) /\ Visited(TriggerChain[i]) =>
                   \A j \in (i + 1)..Len(TriggerChain) :
                       (\A k \in (i + 1)..(j - 1) : ~Blocks(TriggerChain[k]))
                           => Visited(TriggerChain[j])
        /\ (\A i \in 1..Len(TriggerChain) : ~Blocks(TriggerChain[i]))
               => TriggerResult = HookResult("continue", NoReason)

\* a hook raised in should_run, the next one raised in execute, and the hook
\* after them ran and the call returned Continue
C14_Witness ==
    /\ Triggered
    /\ ret.err = "none"
    /\ Len(TriggerChain) = 3
    /\ TriggerChain[1].does = "raise_in_should_run"
    /\ TriggerChain[2].does = "raise_in_execute"
    /\ TriggerChain[3].does = "continue"
    /\ Visited(TriggerChain[3])
    /\ TriggerResult.action = "continue"

\* the handles in Running state
Running == {i \in Subagents : handles[i].status = SUB_RUNNING}
\* the tasks inside the async with block
Holding == {i \in Subagents : handles[i].at \in {"running", "leaving"}}

\* C15 (as stated): with max_concurrent = N at most N handles are in Running
\* state at any time, under every interleaving of the spawned subagents
C15_AtMostNRunning == Cardinality(Running) <= max_concurrent

\* max_concurrent handles are Running while one more spawned subagent waits
C15_Witness ==
    /\ Cardinality(Running) = max_concurrent
    /\ \E i \in Subagents : handles[i].at = "waiting" /\ handles[i].status = SUB_PENDING

\* C16 (as stated): every spawned subagent eventually reaches a terminal
\* status (Completed, Failed, Timeout or Cancelled), its task having left the
\* semaphore: a subagent waiting for the semaphore eventually acquires it
C16_EventuallyTerminal ==
    \A i \in Subagents :
        (handles[i] # NoHandle) ~> (handles[i].at = "done" /\ is_done(handles[i]))

\* all MaxSubagents subagents are through, one of them after waiting for a
\* slot that a finished one released, and every slot is free again
C16_Witness ==
    /\ \A i \in Subagents : handles[i].at = "done" /\ is_done(handles[i])
    /\ MaxSubagents > max_concurrent
    /\ semaphore = max_concurrent
    /\ \E i, j, k \in Subagents :
           /\ handles[i].status = SUB_COMPLETED
           /\ handles[j].status = SUB_FAILED
           /\ handles[k].status = SUB_TIMEOUT

\* C17 (as stated): when the reasoning loop of a task has run max_iterations
\* rounds without an end-turn response, the loop raises "exceeded max
\* iterations", the task ends Failed with that error text, and the
\* task.failed hook is fired
C17_MaxIterationsFails ==
    [][(pc = "round" /\ iter >= max_iterations /\ pc' # "round") =>
          /\ Exists(tasks', cur)
          /\ tasks'[cur].status = FAILED
          /\ tasks'[cur].error = "exceeded max iterations"
          /\ ret'.op = "_execute_task" /\ ret'.err = "raised" /\ ret'.id = cur
          /\ Contains(ret'.fired, "task.failed")
          /\ pc' = "idle"]_vars

\* a run has ended that way
C17_Witness ==
    /\ ret.op = "_execute_task" /\ ret.err = "raised"
    /\ Exists(tasks, ret.id)
    /\ tasks[ret.id].status = FAILED
    /\ tasks[ret.id].error = "exceeded max iterations"
    /\ ret.fired = <<"task.failed">>

\* the task is Pending with its dependencies met
Runnable(ts, t) == ts[t].status = PENDING /\ _are_dependencies_met(ts, t)

\* C18 (as stated): a fatal failure of one task marks that task Failed and
\* does not stop the engine: run() does not end over it while another task is
\* executable, and _execute_subtasks_recursive does not end over it while a
\* later sibling subtask of the same parent is still to be executed
C18_FailureDoesNotStopEngine ==
    caller.state = "raised" =>
        /\ tasks[ret.id].status = FAILED
        /\ caller.of = "run" => get_next_executable_task(tasks) = 0
        /\ caller.of = "_execute_subtasks_recursive" =>
               \A t \in DOMAIN tasks :
                   (t > ret.id /\ tasks[t].parent_id = tasks[ret.id].parent_id)
                       => ~Runnable(tasks, t)

\* C19 (as stated): in tool dispatch every failure outcome (unknown tool,
\* Block from the before-execute hook, denial from the approval hook, the tool
\* ran and reported failure or raised) is returned as a failed tool result
\* that is appended as a tool-result turn, and the reasoning loop goes on
\* with the task still running
C19_ToolFailuresAreData ==
    [][(pc = "dispatch" /\ ret' # ret) =>
          /\ pc' \in {"tools", "round"}
          /\ cur' = cur
          /\ tasks'[cur].status = tasks[cur].status
          /\ \E r \in {ToolResult(TRUE, "none")} \cup
                      {ToolFailed(e) : e \in {"Tool not found", "blocked by hook",
                                              "denied by user", "tool failed",
                                              "tool raised"}} :
                 ret' = [ret EXCEPT !.out = Append(@, r)]]_vars

\* the invocations the running or the last request_interrupt made itself
NotifiedByRequest ==
    LET own(n) == n.by = "request_interrupt" IN SelectSeq(notified, own)

C22_ForwardOnly ==
    [][/\ (ic._state.requested /\ ~ic'._state.requested) => (ResetSync \/ ResetState)
       /\ (ic._state.interrupt_type = HARD /\ ic'._state.requested)
              => ic'._state.interrupt_type = HARD]_vars

\* a provider call starts, a tool_use block is handed to _execute_tool and run
ProviderCallStarts == pc # "call" /\ pc' = "call"
ToolIsDispatched == pc = "dispatch" /\ pc' # "dispatch"

\* C23 (as stated): once an interrupt has been requested and not reset, the
\* reasoning loop of the running task starts no further provider call and
\* dispatches no further tool
C23_NoFurtherCall ==
    [][intRequested => ~ProviderCallStarts /\ ~ToolIsDispatched]_vars

\* C23 (amended): a checkpoint that is evaluated while an interrupt is
\* requested ends the loop with the interrupted result, and no stream item is
\* processed past it; a provider call starts and a tool is dispatched only
\* after their checkpoint saw no request; a request changes nothing in the
\* loop, so a call under way goes on and the request is seen at the next
\* checkpoint
C23_StopsOnceChecked ==
    [][/\ (intRequested /\ pc \in {"round", "tools"} /\ pc' # pc /\ iter < max_iterations)
             => pc' = "returned" /\ loopResult'.kind = "interrupted"
       /\ (intRequested /\ pc = "call") =>
             /\ ~StreamChunk
             /\ \A sr \in {"end_turn", "tool_use", "max_tokens", "other"}, ht \in BOOLEAN :
                   ~Response(sr, TRUE, ht)
       /\ (pc' = "before_call" /\ pc # "before_call") => (pc = "round" /\ ~intRequested)
       /\ ProviderCallStarts => pc = "before_call"
       /\ (pc' = "dispatch" /\ pc # "dispatch") => (pc = "tools" /\ ~intRequested)
       /\ (intRequested' /\ ~intRequested) => UNCHANGED <<engineVars, tasks, ret>>]_vars

\* a request arrived while the provider call was under way; the call returned
\* its tool_use response with text, and checkpoint 3 ended the loop before the
\* tool was dispatched
C23_Witness ==
    /\ pc = "returned"
    /\ loopResult = Res("interrupted")
    /\ toolsLeft >= 1
    /\ text
    /\ Exists(tasks, cur)
    /\ tasks[cur].result = Res("partial")
    /\ tasks[cur].error = InterruptedByUser
    /\ ~intRequested

\* C24 (as stated): the background execution of a subagent ends in exactly
\* one terminal status: Completed with the child's result when the child run
\* returns, Timeout with an error message when the wall-clock timeout elapses
\* first, Failed with an error on any other exception; the status it has
\* written stays, and in each case the handle leaves the active set
C24_OneTerminalStatus ==
    [][\A i \in Subagents :
          /\ ChildEnds(i, "returned") =>
                handles'[i].status = SUB_COMPLETED /\ handles'[i].result
          /\ ChildEnds(i, "timeout") =>
                handles'[i].status = SUB_TIMEOUT /\ handles'[i].error = SubagentTimeout
          /\ ChildEnds(i, "raised") =>
                handles'[i].status = SUB_FAILED /\ handles'[i].error = ExecutionFailed
          /\ \A r \in BOOLEAN : Leave(i, r) =>
                /\ handles'[i].status = handles[i].status
                /\ is_done(handles'[i])
                /\ ~handles'[i].active]_vars

\* C25 (as stated): once the status of a handle is Completed, Failed, Timeout
\* or Cancelled it never changes again, under any interleaving of the
\* background execution, handle.wait and manager shutdown
C25_TerminalFinal ==
    [][\A i \in Subagents :
          is_done(handles[i]) => handles'[i].status = handles[i].status]_vars

\* C26 (as stated): shutdown() sets every handle that is in the active set and
\* not terminal to Cancelled with the cancellation error and cancels its
\* pending future; it leaves the active set empty; handles that are terminal
\* keep their status
C26_ShutdownCancels ==
    [][ManagerShutdown =>
          \A i \in Subagents :
              /\ ~handles'[i].active
              /\ (handles[i].active /\ ~is_done(handles[i])) =>
                    /\ handles'[i].status = SUB_CANCELLED
                    /\ handles'[i].error = CancelledByShutdown
                    /\ handles[i].future = "pending" => handles'[i].future = "cancelled"
              /\ is_done(handles[i]) =>
                    /\ handles'[i].status = handles[i].status
                    /\ handles'[i].error = handles[i].error
              /\ ~handles[i].active => handles'[i] = handles[i]]_vars

\* a shutdown found one subagent running and one that had just completed:
\* the first is Cancelled with its future cancelled, the second is still
\* Completed, and neither is in the active set
C26_Witness ==
    \E i, j \in Subagents :
        /\ handles[i].status = SUB_CANCELLED /\ handles[i].error = CancelledByShutdown
        /\ handles[i].future = "cancelled" /\ handles[i].at = "running"
        /\ handles[j].status = SUB_COMPLETED /\ handles[j].at = "leaving"
        /\ \A k \in Subagents : ~handles[k].active

\* how deep t lies: the tasks on the way from t up that have a parent
Depth(ts, t) ==
    Cardinality({a \in {t} \cup Ancestors(ts, t) : Exists(ts, a) /\ ts[a].parent_id # 0})
\* no task lies deeper than max_depth, no parent has more than
\* max_subtasks_per_task subtasks
WithinLimits(ts) ==
    \A t \in DOMAIN ts :
        /\ Depth(ts, t) <= max_depth
        /\ Len(ts[t].subtasks) <= max_subtasks_per_task

\* C27 (as stated): create_subtask fails with the parent-not-found error for
\* an unknown parent, the max-depth error when the parent is at depth
\* >= max_depth, the max-subtasks error when the parent has
\* max_subtasks_per_task subtasks, each time leaving the tasks as they were;
\* so no task ever lies deeper than max_depth and no parent ever has more
\* than max_subtasks_per_task subtasks
C27_CreateSubtaskLimits ==
    [][/\ WithinLimits(tasks')
       /\ \A parent \in Ids, p \in CreatePriorities :
            CreateSubtask(parent, p) =>
                /\ ~Exists(tasks, parent) =>
                      ret'.err = "ParentNotFound" /\ tasks' = tasks
                /\ Exists(tasks, parent) /\ Depth(tasks, parent) >= max_depth =>
                      ret'.err = "MaxDepthExceeded" /\ tasks' = tasks
                /\ Exists(tasks, parent)
                     /\ Len(tasks[parent].subtasks) >= max_subtasks_per_task =>
                      ret'.err = "MaxSubtasksExceeded" /\ tasks' = tasks]_vars

\* a subtask was refused under a parent at depth max_depth while one more
\* task could have been created
C27_Witness ==
    /\ ret.op = "create_subtask" /\ ret.err = "MaxDepthExceeded"
    /\ \E t \in DOMAIN tasks : Depth(tasks, t) = max_depth
    /\ budget.tasks > 0
    /\ Cardinality({t \in DOMAIN tasks : tasks[t].status = PENDING}) < max_pending_tasks

\* how often id occurs in the list
Occurrences(s, id) == Cardinality({i \in 1..Len(s) : s[i] = id})

\* C28 (as stated): after any sequence of create_task, create_subtask,
\* delete_task and update_task, parent_id and subtasks form a tree: a task
\* with parent_id P occurs exactly once in the subtasks of P, which exists,
\* and every id in a subtasks list names an existing task whose parent_id is
\* the owner of the list (so no task has two parents)
C28_Tree ==
    \A c \in DOMAIN tasks :
        /\ tasks[c].parent_id # 0 =>
              /\ Exists(tasks, tasks[c].parent_id)
              /\ Occurrences(tasks[tasks[c].parent_id].subtasks, c) = 1
        /\ \A i \in 1..Len(tasks[c].subtasks) :
              /\ Exists(tasks, tasks[c].subtasks[i])
              /\ tasks[tasks[c].subtasks[i]].parent_id = c

\* the Pending tasks that are executable: dependencies and subtasks
\* Completed, the parent, if there is one, InProgress or Completed
ExecutableNow ==
    {t \in DOMAIN tasks :
        /\ tasks[t].status = PENDING
        /\ AllCompleted(tasks, tasks[t].depends_on)
        /\ AllCompleted(tasks, tasks[t].subtasks)
        /\ tasks[t].parent_id # 0 =>
              /\ Exists(tasks, tasks[t].parent_id)
              /\ tasks[tasks[t].parent_id].status \in {IN_PROGRESS, COMPLETED}}
\* Critical > High > Medium > Low
PriorityRanking == <<"critical", "high", "medium", "low">>
Rank(t) == CHOOSE r \in 1..4 : PriorityRanking[r] = tasks[t].priority

\* C29 (as stated): get_next_executable_task returns an executable task of
\* the highest priority present among the executable tasks; among those of
\* equal priority the one inserted first; none exactly when no Pending task
\* is executable
C29_HighestPriorityFirst ==
    ret.op = "get_next_executable_task" =>
        /\ ret.id = 0 <=> ExecutableNow = {}
        /\ ret.id # 0 =>
              /\ ret.id \in ExecutableNow
              /\ \A o \in ExecutableNow :
                    /\ Rank(ret.id) <= Rank(o)
                    /\ Rank(ret.id) = Rank(o) => ret.id <= o

\* the task returned was inserted after an executable task of lower priority
\* and before an executable task of its own priority
C29_Witness ==
    /\ ret.op = "get_next_executable_task" /\ ret.id # 0
    /\ \E lower, equal \in ExecutableNow :
           /\ lower < ret.id /\ Rank(lower) > Rank(ret.id)
           /\ equal > ret.id /\ Rank(equal) = Rank(ret.id)

\* the entries of the whitelist that name the tool
Entries(tool_name) == {i \in 1..Len(hitl.tools) : hitl.tools[i].tool_name = tool_name}
EntriesAfter(tool_name) == {i \in 1..Len(hitl'.tools) : hitl'.tools[i].tool_name = tool_name}
Listed(tool_name) == hitl.workspace /\ Entries(tool_name) # {}

\* C30 (as stated): with a workspace attached, the answer 'always' for tool T
\* puts T on the whitelist and every later approval event for T returns
\* Continue without a prompt; a tool not on the whitelist is prompted for;
\* 'yes' allows the one call and lists nothing; adding a listed tool leaves
\* exactly one entry for it
C30_Whitelist ==
    [][/\ \A t \in ApprovalTools, a \in Answers :
            RequiresApproval(t, a) =>
                /\ hitl'.last.tool = t
                /\ Listed(t) =>
                      /\ ~hitl'.last.prompted
                      /\ hitl'.last.action = "continue"
                      /\ hitl'.tools = hitl.tools
                /\ ~Listed(t) =>
                      /\ hitl'.last.prompted
                      /\ hitl'.last.answer = a
                      /\ a = "always" =>
                            /\ hitl'.last.action = "continue"
                            /\ hitl.workspace => Cardinality(EntriesAfter(t)) = 1
                      /\ a = "yes" =>
                            /\ hitl'.last.action = "continue"
                            /\ hitl'.tools = hitl.tools
       /\ \A t \in ApprovalTools :
            AddToWhitelist(t) /\ Listed(t) =>
                /\ hitl'.tools = hitl.tools
                /\ Cardinality(Entries(t)) = 1
       /\ \A t \in ApprovalTools :
            /\ Listed(t) => EntriesAfter(t) # {} /\ hitl'.workspace
            /\ Cardinality(EntriesAfter(t)) <= 1]_vars

\* an approval event for a listed tool has just returned Continue without a
\* prompt, while another tool is not listed
C30_Witness ==
    /\ hitl.workspace
    /\ hitl.last.tool \in ApprovalTools
    /\ Listed(hitl.last.tool)
    /\ ~hitl.last.prompted
    /\ hitl.last.action = "continue"
    /\ \E o \in ApprovalTools : ~Listed(o)

\* what each mode offers: Ask and Plan their allow-list, Execute everything
\* but task_decompose
Offered(mode, name) ==
    CASE mode = ASK -> name \in {"file_read", "web_fetch", "bash", "todo_list"}
      [] mode = PLAN -> name \in {"file_read", "web_fetch", "task_decompose"}
      [] mode = EXECUTE -> name # "task_decompose"
\* the schemas of a list that the manager's is_tool_allowed accepts, in order
RECURSIVE Accepted(_, _)
Accepted(m, schemas) ==
    IF schemas = <<>> THEN <<>>
    ELSE (IF is_tool_allowed(m, Head(schemas).name) THEN <<Head(schemas)>> ELSE <<>>)
         \o Accepted(m, Tail(schemas))

\* C31 (as stated): in every mode filter_tool_schemas returns exactly the
\* schemas whose name is_tool_allowed accepts, in their original order; Ask
\* and Plan offer a tool iff it is on the mode's allow-list, Execute offers
\* every tool but task_decompose; after set_mode(m) the filter follows m
C31_FilterFollowsMode ==
    [][/\ \A all_schemas \in SchemaLists :
            FilterToolSchemas(all_schemas) =>
                /\ modes'.filtered = Accepted(modes, all_schemas)
                /\ \A x \in SchemaNames :
                      is_tool_allowed(modes, x) <=> Offered(modes.current_mode, x)
       /\ \A mode \in ExecutionMode :
            SetMode(mode) =>
                /\ modes'.current_mode = mode
                /\ modes'.mode_config.mode = mode
                /\ \A all_schemas \in SchemaLists :
                      filter_tool_schemas(modes', all_schemas)
                          = Accepted([modes EXCEPT !.current_mode = mode,
                                                   !.mode_config = MODE_CONFIGS[mode]],
                                     all_schemas)]_vars

\* in Plan mode, entered by set_mode, a list with bash between
\* task_decompose and file_read was filtered down to those two
C31_Witness ==
    /\ modes.current_mode = PLAN
    /\ modes.schemas = <<[name |-> "task_decompose"], [name |-> "bash"],
                         [name |-> "file_read"]>>
    /\ modes.filtered = <<[name |-> "task_decompose"], [name |-> "file_read"]>>

\* d is Blocked, depends on p, and after the step every dependency of d is
\* Completed
WaitsOnlyFor(d, p) ==
    /\ tasks[d].status = BLOCKED
    /\ Contains(tasks[d].depends_on, p)
    /\ \A x \in Range(tasks[d].depends_on) :
          Exists(tasks', x) /\ tasks'[x].status = COMPLETED

\* C32 (as stated): when the engine completes a task and a parent is
\* completed automatically because its last subtask completed, every Blocked
\* task that depends on that parent and now has all of its depends_on
\* Completed is moved from Blocked to Pending
C32_PropagatesFromParent ==
    [][ExecuteTaskComplete =>
          \A p \in AutoCompletedNow : \A d \in DOMAIN tasks :
              WaitsOnlyFor(d, p) => tasks'[d].status = PENDING]_vars

\* C33 (as stated): a task is Blocked only while at least one of its
\* dependencies is unmet: no task is Blocked with an empty depends_on list
\* or with every task of it Completed
C33_BlockedHasUnmetDependency ==
    \A t \in DOMAIN tasks :
        tasks[t].status = BLOCKED =>
            \E x \in Range(tasks[t].depends_on) :
                ~(Exists(tasks, x) /\ tasks[x].status = COMPLETED)

\* the dependency edges among the tasks of S have no cycle: every non-empty
\* part of S has a task that depends on no task of the part
AcyclicAmong(S) ==
    \A C \in (SUBSET S) \ {{}} :
        \E t \in C : \A x \in Range(tasks[t].depends_on) : x \notin C

\* C34 (as stated): get_execution_order(ids) counts the in-degree only over
\* the dependencies inside ids: when the edges among the given tasks have no
\* cycle, and also when a given task depends on a task outside ids, it
\* returns every given task once, each after the given tasks it depends on,
\* and reports no cycle
C34_OrderOfSubset ==
    (ret.op = "get_execution_order" /\ AcyclicAmong(Range(ret.ids))) =>
        /\ ret.err = "none"
        /\ Len(ret.out) = Len(ret.ids)
        /\ Range(ret.out) = Range(ret.ids)
        /\ \A i, j \in 1..Len(ret.out) :
              DependsOn(tasks, ret.out[i], ret.out[j]) => j < i

\* modified_context and metadata of the result of the trigger, and what the
\* hooks whose execute was called found in the context
TriggerData == ret.out[3]
TriggerMetadata == ret.out[4]
TriggerSaw == ret.out[5]
\* the hook of the chain with that id
ChainHook(id) == CHOOSE h \in Range(TriggerChain) : h.id = id
\* the dict that the patches of the first n hooks that ran leave, for data
\* ("patch_data") or for metadata ("patch_metadata")
RECURSIVE Accumulated(_, _)
Accumulated(kind, n) ==
    IF n = 0 THEN EmptyDict
    ELSE LET before == Accumulated(kind, n - 1)
             id == TriggerSaw[n].id
         IN  IF ChainHook(id).does = kind
             THEN [none |-> FALSE, last |-> id, keys |-> before.keys \cup {id}]
             ELSE before
\* the hooks run in ascending priority number, none whose should_run is
\* false runs, and every hook finds the patches of the hooks before it
RunsInOrderOnSharedContext ==
    /\ \A k \in 1..Len(TriggerSaw) :
          /\ ChainHook(TriggerSaw[k].id).does # "skip"
          /\ TriggerSaw[k].data = Accumulated("patch_data", k - 1)
          /\ TriggerSaw[k].metadata = Accumulated("patch_metadata", k - 1)
          /\ \A j \in 1..(k - 1) :
                ChainHook(TriggerSaw[j].id).priority
                    <= ChainHook(TriggerSaw[k].id).priority
    /\ \A h \in Range(TriggerChain) :
          (h.does # "skip" /\ TriggerResult.action # "block")
              => \E k \in 1..Len(TriggerSaw) : TriggerSaw[k].id = h.id
\* the result is Continue with the accumulated data and metadata
ContinueCarriesAll ==
    /\ TriggerResult.action = "continue"
    /\ TriggerData = Accumulated("patch_data", Len(TriggerSaw))
    /\ TriggerMetadata = Accumulated("patch_metadata", Len(TriggerSaw))

InLoop(at) == at \in {"round", "before_call", "call", "tools", "dispatch"}
\* the step is the provider call raising, which is no response
ProviderRaises ==
    pc = "call" /\ pc' = "idle" /\ Exists(tasks', cur) /\ tasks'[cur].error = "provider error"

\* C36 (as stated): the reasoning loop of a task calls the provider only
\* while fewer than max_iterations rounds are used, every tool-use,
\* token-limit or unknown response uses up exactly one round before the next
\* round begins, and whatever the provider responds the loop ends in one of
\* three ways: with the final result on end-turn, with the interrupted
\* sentinel at a checkpoint, or with the exceeded-max-iterations error
C36_BoundedLoop ==
    [][/\ iter <= max_iterations
       /\ (pc # "call" /\ pc' = "call") => (pc = "before_call" /\ iter < max_iterations)
       /\ (pc = "round" /\ pc' = "before_call") => iter' = iter
       /\ (InLoop(pc) /\ pc # "round" /\ pc' = "round") => iter' = iter + 1
       /\ (InLoop(pc) /\ ~InLoop(pc') /\ ~ProviderRaises) =>
             \/ /\ pc = "call" /\ pc' = "returned"
                /\ loopResult'.kind \in {"final", "empty"}
             \/ /\ pc \in {"round", "call", "tools"} /\ pc' = "returned"
                /\ loopResult'.kind = "interrupted"
             \/ /\ pc = "round" /\ iter >= max_iterations /\ pc' = "idle"
                /\ Exists(tasks', cur)
                /\ tasks'[cur].error = "exceeded max iterations"]_vars

\* P is Pending and C is a subtask of P that is not Completed
WaitForEachOther(P, C) ==
    /\ tasks[P].status = PENDING
    /\ Contains(tasks[P].subtasks, C)
    /\ tasks[C].parent_id = P
    /\ tasks[C].status # COMPLETED

\* C37 (as stated): while a Pending task P has a subtask C that is not
\* Completed, get_next_executable_task returns neither P nor C, however
\* often it is asked: the query changes no task, and the run loop, which
\* starts only what the query returns, starts neither of them
C37_ParentAndSubtaskWait ==
    [][\A P, C \in DOMAIN tasks :
          WaitForEachOther(P, C) =>
              /\ GetNextExecutableTask =>
                    /\ ret'.id \notin {P, C}
                    /\ tasks' = tasks
                    /\ WaitForEachOther(P, C)'
              /\ RunLoop => cur' \notin {P, C}]_vars

\* the scheduler was asked and returned none, although a Pending task and
\* its Pending subtask, neither with a dependency, are in the collection
C37_Witness ==
    /\ ret.op = "get_next_executable_task" /\ ret.id = 0
    /\ \E P, C \in DOMAIN tasks :
          /\ WaitForEachOther(P, C)
          /\ tasks[C].status = PENDING
          /\ tasks[P].depends_on = <<>> /\ tasks[C].depends_on = <<>>

\* the last call was _execute_tool behind the hook engine: the call, what the
\* two gates returned and which hooks they ran, and whether tool.execute ran
Gated == ret.op = "_execute_tool" /\ Len(ret.out) = 5
GatedCall == ret.out[1]
BeforeGate == ret.out[2]
ApprovalGate == ret.out[3]
ToolExecuted == ret.out[4]
\* the gate ran no hook and did not block
GateOpen(gate) == gate.visited = <<>> /\ gate.action # "block"

Spawned == {i \in Subagents : handles[i] # NoHandle}
Retrievable == {i \in Spawned : handles[i].active}

\* C39: in every reachable state of the subagent manager the active set
\* holds exactly the spawned handles that have not reached a terminal
\* status: every handle in Pending or Running is retrievable, and no handle
\* of the active set is terminal, also while a shutdown runs with executions
\* in flight
C39_ActiveIffNotTerminal ==
    \A i \in Spawned :
        /\ handles[i].status \in {SUB_PENDING, SUB_RUNNING} => i \in Retrievable
        /\ i \in Retrievable => ~is_done(handles[i])


(* ------------------------------- C40 ------------------------------------ *)
\* the SIGINT handler runs while the provider call of the running task is
\* under way
RequestDuringCall ==
    /\ pc = "call"
    /\ RequestInterrupt

\* a batch of tasks run one after the other (run, or a task and then its
\* subtasks), every interrupt request arriving during a provider call
NextBatch ==
    \/ caller = NoCaller /\ \E p \in CreatePriorities : CreateTask(p)
    \/ caller = NoCaller /\ \E t \in Ids, p \in CreatePriorities : CreateSubtask(t, p)
    \/ RequestDuringCall
    \/ \E t \in Ids : ExecuteTaskStart(t)
    \/ RunStart
    \/ RunLoop
    \/ \E t \in Ids : ExecuteSubtasksRecursive(t)
    \/ SubtasksStep
    \/ Checkpoint1
    \/ LlmBeforeCall
    \/ ProviderCall
    \/ StreamChunk
    \/ Checkpoint2
    \/ \E st \in BOOLEAN : Response("end_turn", st, FALSE)
    \/ ExecuteTaskComplete
SpecBatch ==
    Start([tasks |-> LoopTasks, api |-> 0, intr |-> LoopInterrupts, runs |-> LoopRuns])
    /\ [][NextBatch]_vars

\* C40: an interrupt request affects only the task whose loop is running
\* when it is requested: once that task's execution has returned, the
\* interrupt controller is back to NotRequested with count 0, so the next
\* task of the batch does not start under the earlier request, also when
\* the request arrived during the provider call that ended the task with
\* end-turn
C40_InterruptStaysWithItsTask ==
    pc = "idle" => (~intRequested /\ ic._interrupt_count = 0)

=============================================================================
